---- MODULE Spec2Model ----
(***************************************************************************)
(* Model of the calendar assistant of giorgioGunawan/tary: the handling of *)
(* one chat message by processCalendarMessage (calendarHandler.js), the    *)
(* intent classifier and the response synthesizer (aiService.js), the      *)
(* calendar list capability getCalendarEvents (app.js), and the weekday    *)
(* resolver getNextDayOfWeek.                                              *)
(*                                                                         *)
(* JavaScript values are modelled as follows.                              *)
(*  - A Date is the instant it holds, a record [day, ms]: whole days since *)
(*    a Sunday 00:00 UTC and milliseconds within that day.  The local      *)
(*    wall clock of the host process is the instant shifted by the host's  *)
(*    UTC offset (zones are modelled without daylight saving).             *)
(*  - A date-time string is [kind, day, ms]: "local" for a string without  *)
(*    zone designator (2024-11-24T14:00:00), "utc" for a string ending in  *)
(*    Z, "invalid" for a string Date cannot parse, "absent" for undefined. *)
(*  - undefined / a missing property of string type is Absent.             *)
(*  - An error text is a sequence of text pieces; <<>> is a missing (or    *)
(*    empty, hence falsy) error.                                           *)
(***************************************************************************)
EXTENDS Integers, Sequences, FiniteSets, TLC

\* ------------------------------------------------------------------ bounds
\* longest list the search / list capability returns
MaxMatches == 2
\* event ids known to the calendar provider
MaxEventId == 2
\* number of reference days the clock is drawn from
MaxRefDay == 7
\* most messages in one webhook payload
MaxMessages == 3
\* phone numbers with a getCalendarEvents call in flight
MaxPhones == 2
\* OAuth state tokens generated (link requests made)
MaxStates == 2
\* OAuth callback requests
MaxCallbacks == 2
\* operations made on the stored users in a row
MaxOps == 3

\* -------------------------------------------------------------- constants
MsPerHour == 60 * 60 * 1000
MsPerDay == 24 * MsPerHour
\* Australia/Sydney standard time, UTC+10
HomeOffset == 10
\* UTC offsets (hours) of the host process: a UTC host and a Sydney host
HostOffsets == {0, HomeOffset}

Absent == "<undefined>"
NoDay == 0 - 1
BadDay == 0 - 2
NoEvent == 0

\* ------------------------------------------------------------ Date values
Instant(d, m) == [day |-> d, ms |-> m]

\* normalise a day / millisecond pair
AddMs(t, k) ==
  LET total == t.ms + k
  IN  [day |-> t.day + (total \div MsPerDay), ms |-> total % MsPerDay]

\* wall clock shown in a zone with the given UTC offset
LocalWall(t, off) == AddMs(t, off * MsPerHour)
\* instant at which a zone with the given offset shows this wall clock
FromLocalWall(w, off) == AddMs(w, 0 - (off * MsPerHour))

\* Date.prototype.getDay in the host zone (0 = sunday)
GetDay(t, host) == LocalWall(t, host).day % 7

\* Date.prototype.setHours(h, m, s, ms) in the host zone
SetHours(t, host, msOfDay) ==
  FromLocalWall(Instant(LocalWall(t, host).day, msOfDay), host)

\* d.setDate(d.getDate() + k) in the host zone
AddDays(t, host, k) ==
  LET w == LocalWall(t, host)
  IN  FromLocalWall(Instant(w.day + k, w.ms), host)

\* d.setHours(d.getHours() + k) in the host zone
AddHours(t, host, k) ==
  FromLocalWall(AddMs(LocalWall(t, host), k * MsPerHour), host)

\* new Date(now.toLocaleString('en-US', {timeZone: 'Australia/Sydney'})):
\* the Sydney wall clock of now, printed to the second, read back as a wall
\* clock of the host zone
SydneyNow(now, host) ==
  LET w == LocalWall(now, HomeOffset)
  IN  FromLocalWall(Instant(w.day, w.ms - (w.ms % 1000)), host)

NoDT == [kind |-> "absent", day |-> 0, ms |-> 0]
LocalDT(d, m) == [kind |-> "local", day |-> d, ms |-> m]
UtcDT(d, m) == [kind |-> "utc", day |-> d, ms |-> m]
InvalidDT == [kind |-> "invalid", day |-> 0, ms |-> 0]

\* new Date(string): a string without designator is read in the host zone
\* (only called on strings that are present and parse)
ParseDate(dt, host) ==
  IF dt.kind = "utc" THEN Instant(dt.day, dt.ms)
  ELSE FromLocalWall(Instant(dt.day, dt.ms), host)

\* Date.prototype.toISOString: always the UTC form
ToISOString(t) == UtcDT(t.day, t.ms)

\* the instant a date-time string denotes in the home zone, the zone the
\* assistant's date-times are expressed in
HomeInstant(dt) ==
  IF dt.kind = "utc" THEN Instant(dt.day, dt.ms)
  ELSE FromLocalWall(Instant(dt.day, dt.ms), HomeOffset)

\* ------------------------------------------------------- weekday resolver
days == <<"sunday", "monday", "tuesday", "wednesday", "thursday", "friday", "saturday">>

\* the day tokens the model draws from: the seven names, capitalised
\* spellings of some of them, and a token that is no weekday
DayTokens == {days[i] : i \in 1..7} \cup {"Friday", "MONDAY", "Sunday", "someday"}

\* String.prototype.toLowerCase on the modelled tokens
ToLowerCase(s) ==
  CASE s = "Friday" -> "friday"
    [] s = "MONDAY" -> "monday"
    [] s = "Sunday" -> "sunday"
    [] s = "PM" -> "pm"
    [] OTHER -> s

\* Array.prototype.indexOf, zero-based, -1 when absent
IndexOf(seq, x) ==
  IF \E i \in 1..Len(seq) : seq[i] = x
  THEN (CHOOSE i \in 1..Len(seq) : seq[i] = x /\ \A j \in 1..(i - 1) : seq[j] # x) - 1
  ELSE 0 - 1

NullDate == [day |-> 0 - 1, ms |-> 0]

\* variant: the same weekday counts as reached today ("< 0")
DaysUntilTarget_SameDay(targetDay, currentDay) ==
  LET d == targetDay - currentDay
  IN  IF d < 0 THEN d + 7 ELSE d

\* the step "if (daysUntilTarget <= 0) daysUntilTarget += 7"
DaysUntilTarget(targetDay, currentDay) ==
  LET d == targetDay - currentDay
  IN  IF d <= 0 THEN d + 7 ELSE d

\* getNextDayOfWeek(dayName, fromDate); now is the clock read when fromDate
\* is null
GetNextDayOfWeek(dayName, fromDate, now, host) ==
  LET targetDay == IndexOf(days, ToLowerCase(dayName))
      startDate == IF fromDate = NullDate THEN SydneyNow(now, host) ELSE fromDate
  IN  IF targetDay = 0 - 1
      THEN (IF fromDate = NullDate THEN now ELSE fromDate)
      ELSE AddDays(startDate, host, DaysUntilTarget(targetDay, GetDay(startDate, host)))

\* ---------------------------------------------------------- parseDateTime
\* A natural-language date/time string is what parseDateTime reads off it:
\* the words it contains and the first match of the time pattern
\* /(\d{1,2}):?(\d{2})?\s*(am|pm)?/i (hour, minutes, meridiem) in it.
NoMin == 0 - 1
NoTime == [h |-> 0 - 1, m |-> NoMin, mer |-> ""]
TimeMatch(h, m, mer) == [h |-> h, m |-> m, mer |-> mer]

Str(words, time) == [kind |-> "text", words |-> words, time |-> time]
EmptyStr == [kind |-> "empty", words |-> {}, time |-> NoTime]
NullStr == [kind |-> "null", words |-> {}, time |-> NoTime]

\* String.prototype.includes on the lower-cased string
Includes(str, w) ==
  \E t \in str.words : ToLowerCase(t) = w \/ (t = "next week" /\ w = "next")

\* variant: without the "|| 7"
WeekdayOffset_NoWrap(k, g) == (k + 7 - g) % 7

\* lines 301-313: (k + 7 - result.getDay()) % 7 || 7 for the branch of
\* weekday k (the sunday branch is written (7 - getDay) % 7 || 7, k = 0)
WeekdayOffset(k, g) ==
  LET r == (k + 7 - g) % 7
  IN  IF r = 0 THEN 7 ELSE r

\* lines 296-314: the days added by the first branch of the if-chain whose
\* word the string includes: today, tomorrow, monday .. saturday, sunday
DayBranchOffset(str, g) ==
  IF Includes(str, "today") THEN 0
  ELSE IF Includes(str, "tomorrow") THEN 1
  ELSE IF \E i \in 2..7 : Includes(str, days[i])
  THEN WeekdayOffset((CHOOSE i \in 2..7 : /\ Includes(str, days[i])
                                          /\ \A j \in 2..(i - 1) : ~Includes(str, days[j])) - 1, g)
  ELSE IF Includes(str, "sunday") THEN WeekdayOffset(0, g)
  ELSE 0

\* variant: "next" adds nothing
NextModifierDays_None(str) == 0

\* lines 317-319: the days added by the "next" modifier
NextModifierDays(str) ==
  IF Includes(str, "next") /\ ~Includes(str, "next week") THEN 7 ELSE 0

\* line 322: timeStr || dateTimeStr
TimeToUse(str, timeStr) == IF timeStr.kind = "text" THEN timeStr ELSE str

\* variant: 'pm' adds 12 to every hour, 12 included
Hours24_PmAlways(tm) ==
  LET meridiem == ToLowerCase(tm.mer)
  IN  IF meridiem = "pm" THEN tm.h + 12
      ELSE IF meridiem = "am" /\ tm.h = 12 THEN 0
      ELSE tm.h

\* lines 326-331: the 24-hour hour of a time match
Hours24(tm) ==
  LET meridiem == ToLowerCase(tm.mer)
  IN  IF meridiem = "pm" /\ tm.h < 12 THEN tm.h + 12
      ELSE IF meridiem = "am" /\ tm.h = 12 THEN 0
      ELSE tm.h

\* line 327
Minutes(tm) == IF tm.m = NoMin THEN 0 ELSE tm.m

\* parseDateTime(dateTimeStr, timeStr), now being the clock it reads
ParseDateTime(str, timeStr, now, host) ==
  LET start == SetHours(now, host, 0)
      onDay == AddDays(start, host, DayBranchOffset(str, GetDay(start, host)))
      shifted == AddDays(onDay, host, NextModifierDays(str))
      tm == TimeToUse(str, timeStr).time
  IN  IF tm = NoTime THEN shifted
      ELSE SetHours(shifted, host, ((Hours24(tm) * 60) + Minutes(tm)) * 60000)

\* the strings the model hands to parseDateTime
DayWordSets ==
  {{}} \cup {{w} : w \in {"today", "tomorrow"} \cup DayTokens}
       \cup {{"today", "friday"}, {"monday", "friday"}}
Modifiers == {{}, {"next"}, {"next week"}}
WordSets == {d \cup m : d \in DayWordSets, m \in Modifiers}
TimeMatches ==
  {NoTime} \cup {TimeMatch(h, m, "") : h \in 0..24, m \in {NoMin, 30}}
           \cup {TimeMatch(h, m, mer) : h \in 0..13, m \in {NoMin, 30}, mer \in {"am", "pm"}}
           \cup {TimeMatch(2, NoMin, "PM"), TimeMatch(99, 99, "")}
ParseInputs ==
  {[str |-> Str(w, t), timeStr |-> NullStr] : w \in WordSets, t \in TimeMatches}
    \cup {[str |-> Str(w, NoTime), timeStr |-> ts] :
            w \in WordSets,
            ts \in {EmptyStr, Str({}, NoTime), Str({}, TimeMatch(3, NoMin, "pm")),
                    Str({"friday"}, TimeMatch(9, 30, ""))}}
    \cup {[str |-> Str({"friday"}, TimeMatch(2, NoMin, "pm")),
           timeStr |-> Str({}, TimeMatch(3, NoMin, "pm"))]}

\* ------------------------------------------------------------ intents
\* parameters of an intent; a field the classifier left out is Absent /
\* NoDay / NoDT / "absent"
EmptyParams ==
  [date |-> NoDay, specificDay |-> Absent, dateRange |-> Absent,
   summary |-> Absent, startDateTime |-> NoDT, endDateTime |-> NoDT,
   searchQuery |-> Absent, updates |-> "absent"]

\* JavaScript truthiness of a string property
Truthy(s) == s # Absent /\ s # ""

ReadParams ==
  {[EmptyParams EXCEPT !.date = d, !.specificDay = sd, !.dateRange = r] :
     d \in {NoDay, BadDay, 3}, sd \in {Absent, "friday", "someday"},
     r \in {Absent, "day", "week", "month"}}

StartTimes ==
  {NoDT, InvalidDT, LocalDT(3, 14 * MsPerHour), LocalDT(3, 23 * MsPerHour + 1800000),
   UtcDT(3, 4 * MsPerHour)}

CreateParams ==
  {[EmptyParams EXCEPT !.summary = sm, !.startDateTime = st, !.endDateTime = en] :
     sm \in {Absent, "", "Meeting"}, st \in StartTimes,
     en \in {NoDT, LocalDT(3, 15 * MsPerHour + 1800000)}}

UpdateParams ==
  {[EmptyParams EXCEPT !.searchQuery = q, !.updates = u] :
     q \in {Absent, "", "gym"}, u \in {"absent", "empty", "nonempty"}}

DeleteParams ==
  {[EmptyParams EXCEPT !.searchQuery = q] : q \in {Absent, "", "gym"}}

ParamsOf(action) ==
  CASE action = "read_events" -> ReadParams
    [] action = "create_event" -> CreateParams
    [] action = "update_event" -> UpdateParams
    [] action = "delete_event" -> DeleteParams
    [] OTHER -> {EmptyParams}

CalendarActions == {"read_events", "create_event", "update_event", "delete_event"}

ObjectIntent(a, has, params, err) ==
  [shape |-> "object", action |-> a, hasParams |-> has, p |-> params, error |-> err]

NonObject(sh) ==
  [shape |-> sh, action |-> Absent, hasParams |-> FALSE, p |-> EmptyParams, error |-> FALSE]

\* every value JSON.parse can hand back for a model output: intent objects
\* of the five actions and of an action outside them, with or without a
\* parameters field, an object without action, and the non-objects null,
\* number and array
IntentValues ==
  {ObjectIntent(a, TRUE, params, FALSE) :
     a \in CalendarActions \cup {"unknown", "book_flight", Absent}, params \in {EmptyParams}}
  \cup UNION {{ObjectIntent(a, TRUE, params, FALSE) : params \in ParamsOf(a)} : a \in CalendarActions}
  \cup {ObjectIntent(a, FALSE, EmptyParams, FALSE) : a \in CalendarActions \cup {"unknown"}}
  \cup {NonObject(sh) : sh \in {"null", "number", "array"}}

\* the text of a model output, by what JSON.parse makes of it
NotJson == [json |-> FALSE, val |-> NonObject("null")]
ModelTexts == {NotJson} \cup {[json |-> TRUE, val |-> v] : v \in IntentValues}

\* what a language-model transport hands back: a failure (error, quota,
\* timeout, in curl also an error body or output that is no JSON), a
\* response without choices[0].message.content, or a response with content
NoText == NotJson
LLMFail == [kind |-> "fail", text |-> NoText]
LLMBadShape == [kind |-> "badshape", text |-> NoText]
LLMContent(t) == [kind |-> "content", text |-> t]
ClassifyResponses == {LLMFail, LLMBadShape} \cup {LLMContent(t) : t \in ModelTexts}

\* the intent of the catch block of parseCalendarIntent
ClassifyCatch == ObjectIntent("unknown", TRUE, EmptyParams, TRUE)

\* lines 178-185 of parseCalendarIntent with the catch of lines 186-193:
\* read the content, JSON.parse it, return what was parsed
ContentToIntent(resp) ==
  IF resp.kind = "content" /\ resp.text.json THEN resp.text.val ELSE ClassifyCatch

\* ---------------------------------------------------- operation results
NoCount == 0 - 1

\* an operation result; shape "null" is a result that is undefined
BaseResult ==
  [shape |-> "object", success |-> "absent", error |-> <<>>, evKind |-> "absent",
   events |-> <<>>, count |-> NoCount, payload |-> "none", deletedEvent |-> NoEvent]

\* variant: the caught error's message is not handed back
Failure_NoError(err) == [BaseResult EXCEPT !.success = "false"]

\* the result a handler's catch (or one of its checks) hands back
Failure(err) == [BaseResult EXCEPT !.success = "false", !.error = err]
UndefinedResult == [BaseResult EXCEPT !.shape = "null"]

\* messages of the errors the handlers catch
TypeErrorMsg == <<"Cannot read properties of undefined">>
RangeErrorMsg == <<"Invalid time value">>
CalendarErrorMsg == <<"calendar request failed">>

\* variant: the message leaves the query out
NoEventsFound_NoQuery(q) == <<"No events found">>

\* `No events found matching "${parameters.searchQuery}"`
NoEventsFound(q) == <<"No events found matching \"", q, "\"">>

\* the text contains the piece q
Contains(text, q) == \E i \in 1..Len(text) : text[i] = q

\* --------------------------------------------------- calendar capabilities
EventIds == 1..MaxEventId
EventLists == UNION {[1..n -> EventIds] : n \in 0..MaxMatches}

\* a call made to a collaborator, with the arguments the claims speak of;
\* threw tells that the call ended in an exception
Call(fn) ==
  [fn |-> fn, id |-> NoEvent, q |-> Absent, updates |-> "absent",
   tmin |-> NullDate, tmax |-> NullDate, start |-> NoDT, end |-> NoDT,
   threw |-> FALSE]

\* outcomes of the provider's events.list request
ListOutcomes ==
  {[kind |-> "throw", items |-> <<>>], [kind |-> "noitems", items |-> <<>>]}
  \cup {[kind |-> "items", items |-> l] : l \in EventLists}

NoSearch == [kind |-> "none", items |-> <<>>]

\* outcomes of searchCalendarEvents
SearchOutcomes ==
  {[kind |-> "throw", items |-> <<>>], [kind |-> "null", items |-> <<>>]}
  \cup {[kind |-> "items", items |-> l] : l \in EventLists}

\* outcomes of createCalendarEvent / updateCalendarEvent / deleteCalendarEvent:
\* an exception, or a returned value
WriteOutcomes == {"throw", "undefined", "ok", "fail", "fail_noerror", "nosuccess"}

WriteResult(outcome, payload) ==
  CASE outcome = "ok" -> [BaseResult EXCEPT !.success = "true", !.payload = payload]
    [] outcome = "fail" -> Failure(<<"provider rejected the request">>)
    [] outcome = "fail_noerror" -> Failure(<<>>)
    [] outcome = "nosuccess" -> [BaseResult EXCEPT !.payload = payload]
    [] OTHER -> UndefinedResult

\* stored credentials of the user: none, valid, or past their expiry_date
TokenStates == {"none", "valid", "expired"}

\* getCalendarEvents of app.js: null without a list request when the user has
\* no tokens; a refresh (and save) first when the tokens are expired; then the
\* list request.  Yields the value or exception, the requests made and the
\* stored tokens afterwards.
GetCalendarEvents(tok, refreshOk, list) ==
  IF tok = "none"
  THEN [thrown |-> FALSE, kind |-> "null", items |-> <<>>, calls |-> <<>>, tok |-> tok]
  ELSE IF tok = "expired" /\ ~refreshOk
  THEN [thrown |-> TRUE, kind |-> "null", items |-> <<>>,
        calls |-> <<[Call("refresh") EXCEPT !.threw = TRUE]>>, tok |-> tok]
  ELSE LET pre == IF tok = "expired" THEN <<Call("refresh"), Call("saveCalendarTokens")>> ELSE <<>>
       IN  [thrown |-> list.kind = "throw",
            kind |-> "array",
            items |-> list.items,
            calls |-> pre \o <<[Call("list") EXCEPT !.threw = list.kind = "throw"]>>,
            tok |-> "valid"]

\* ------------------------------------------------------------- handlers
EndOfDay == MsPerDay - 1

DayWindow(target, host) ==
  [ok |-> TRUE, tmin |-> SetHours(target, host, 0), tmax |-> SetHours(target, host, EndOfDay)]

\* variant: specificDay is looked at before date
ReadWindow_DayFirst(p, now, host) ==
  LET sydneyNow == SydneyNow(now, host)
  IN  IF Truthy(p.specificDay)
      THEN DayWindow(GetNextDayOfWeek(p.specificDay, sydneyNow, now, host), host)
      ELSE IF p.date # NoDay
      THEN (IF p.date = BadDay
            THEN [ok |-> FALSE, tmin |-> NullDate, tmax |-> NullDate]
            ELSE DayWindow(FromLocalWall(Instant(p.date, 0), host), host))
      ELSE IF p.dateRange = "week"
      THEN [ok |-> TRUE, tmin |-> sydneyNow, tmax |-> AddDays(sydneyNow, host, 7)]
      ELSE IF p.dateRange = "month"
      THEN [ok |-> TRUE, tmin |-> sydneyNow, tmax |-> AddDays(sydneyNow, host, 30)]
      ELSE DayWindow(sydneyNow, host)

\* lines 78-117 of handleReadEvents: the window asked for; ok is FALSE when
\* toISOString throws on an invalid Date
ReadWindow(p, now, host) ==
  LET sydneyNow == SydneyNow(now, host)
  IN  IF p.date # NoDay
      THEN (IF p.date = BadDay
            THEN [ok |-> FALSE, tmin |-> NullDate, tmax |-> NullDate]
            ELSE DayWindow(FromLocalWall(Instant(p.date, 0), host), host))
      ELSE IF Truthy(p.specificDay)
      THEN DayWindow(GetNextDayOfWeek(p.specificDay, sydneyNow, now, host), host)
      ELSE IF p.dateRange = "week"
      THEN [ok |-> TRUE, tmin |-> sydneyNow, tmax |-> AddDays(sydneyNow, host, 7)]
      ELSE IF p.dateRange = "month"
      THEN [ok |-> TRUE, tmin |-> sydneyNow, tmax |-> AddDays(sydneyNow, host, 30)]
      ELSE DayWindow(sydneyNow, host)

Handled(res, cs, tok) == [res |-> res, calls |-> cs, tok |-> tok]

\* handleReadEvents
HandleReadEventsOp(has, p, now, host, tok, refreshOk, list) ==
  IF ~has THEN Handled(Failure(TypeErrorMsg), <<>>, tok)
  ELSE
    LET w == ReadWindow(p, now, host)
        got == GetCalendarEvents(tok, refreshOk, list)
        ask == [Call("getCalendarEvents") EXCEPT !.tmin = w.tmin, !.tmax = w.tmax,
                                                 !.threw = got.thrown]
    IN  IF ~w.ok THEN Handled(Failure(RangeErrorMsg), <<>>, tok)
        ELSE IF got.thrown
        THEN Handled(Failure(CalendarErrorMsg), <<ask>> \o got.calls, got.tok)
        ELSE Handled([BaseResult EXCEPT !.success = "true", !.evKind = got.kind,
                                        !.events = got.items,
                                        !.count = IF got.kind = "null" THEN 0 ELSE Len(got.items)],
                     <<ask>> \o got.calls, got.tok)

\* variant: only the title is checked
CreateValidationError_TitleOnly(p) ==
  IF ~Truthy(p.summary) THEN <<"Event title is required">> ELSE <<>>

\* lines 146-159 of handleCreateEvent: the validation error, <<>> when the
\* parameters pass
CreateValidationError(p) ==
  IF ~Truthy(p.summary) THEN <<"Event title is required">>
  ELSE IF p.startDateTime.kind = "absent" THEN <<"Event start time is required">>
  ELSE <<>>

\* new Date(s) is an Invalid Date
Unparseable(dt) == dt.kind \in {"invalid", "absent"}

\* lines 163-166 of handleCreateEvent: the default end, one hour after start
DefaultEnd(start, host) == ToISOString(AddHours(ParseDate(start, host), host, 1))

\* handleCreateEvent
HandleCreateEventOp(has, p, host, outcome) ==
  IF ~has THEN Handled(Failure(TypeErrorMsg), <<>>, "")
  ELSE IF CreateValidationError(p) # <<>>
  THEN Handled(Failure(CreateValidationError(p)), <<>>, "")
  ELSE IF p.endDateTime.kind = "absent" /\ Unparseable(p.startDateTime)
  THEN Handled(Failure(RangeErrorMsg), <<>>, "")
  ELSE
    LET end == IF p.endDateTime.kind = "absent" THEN DefaultEnd(p.startDateTime, host)
               ELSE p.endDateTime
        c == [Call("create") EXCEPT !.start = p.startDateTime, !.end = end,
                                    !.threw = outcome = "throw"]
    IN  Handled(IF outcome = "throw" THEN Failure(CalendarErrorMsg)
                ELSE WriteResult(outcome, "createdEvent"), <<c>>, "")

\* variant: only a missing searchQuery is refused, an empty one is searched for
SearchQueryError_AbsentOnly(p, verb) ==
  IF p.searchQuery = Absent THEN <<"Please specify which event to ", verb>> ELSE <<>>

\* lines 199-204 / 243-248: the searchQuery check
SearchQueryError(p, verb) ==
  IF ~Truthy(p.searchQuery) THEN <<"Please specify which event to ", verb>> ELSE <<>>

\* lines 208 / 252: !matches || matches.length === 0
NoMatch(s) == s.kind = "null" \/ Len(s.items) = 0

\* variant: the last match is taken
FirstMatch_Last(m) == m[Len(m)]

\* lines 216 / 260: matches[0]
FirstMatch(m) == m[1]

\* variant: the matched event is attached whatever the delete call reported
DeleteResult_EchoAlways(outcome, ev) ==
  IF outcome = "throw" THEN Failure(CalendarErrorMsg)
  ELSE IF outcome = "undefined" THEN Failure(TypeErrorMsg)
  ELSE [WriteResult(outcome, "none") EXCEPT !.deletedEvent = ev]

\* lines 263-269 of handleDeleteEvent: the result of the delete call, with
\* the matched event attached when it reports success
DeleteResult(outcome, ev) ==
  IF outcome = "throw" THEN Failure(CalendarErrorMsg)
  ELSE IF outcome = "undefined" THEN Failure(TypeErrorMsg)
  ELSE IF outcome = "ok" THEN [WriteResult(outcome, "none") EXCEPT !.deletedEvent = ev]
  ELSE WriteResult(outcome, "none")

\* ------------------------------------------------------------ replies
Reply(kind, n, err) == [kind |-> kind, n |-> n, err |-> err]
NoReply == Reply("none", 0, <<>>)
HelpReply == Reply("help", 0, <<>>)
ModelReply == Reply("model", 0, <<>>)
\* the kinds of reply text processCalendarMessage can hand back
ReplyKinds == {"help", "model", "found", "created", "updated", "deleted", "error", "generic", "sorry"}

\* variant: a read always reports an event count
FallbackReply_CountFirst(action, result) ==
  IF result.shape = "null" THEN [thrown |-> TRUE, reply |-> NoReply]
  ELSE IF action = "read_events"
  THEN [thrown |-> FALSE, reply |-> Reply("found", Len(result.events), <<>>)]
  ELSE IF action \in {"create_event", "update_event", "delete_event"} /\ result.success = "true"
  THEN [thrown |-> FALSE, reply |-> Reply("created", 0, <<>>)]
  ELSE IF result.error # <<>>
  THEN [thrown |-> FALSE, reply |-> Reply("error", 0, result.error)]
  ELSE [thrown |-> FALSE, reply |-> Reply("generic", 0, <<>>)]

\* the fallback of generateResponse, lines 263-277; thrown when evaluating it
\* raises a TypeError on a result that is undefined
FallbackReply(action, result) ==
  IF result.shape = "null" THEN [thrown |-> TRUE, reply |-> NoReply]
  ELSE IF action = "read_events" /\ result.evKind = "array"
  THEN [thrown |-> FALSE, reply |-> Reply("found", Len(result.events), <<>>)]
  ELSE IF action = "create_event" /\ result.success = "true"
  THEN [thrown |-> FALSE, reply |-> Reply("created", 0, <<>>)]
  ELSE IF action = "update_event" /\ result.success = "true"
  THEN [thrown |-> FALSE, reply |-> Reply("updated", 0, <<>>)]
  ELSE IF action = "delete_event" /\ result.success = "true"
  THEN [thrown |-> FALSE, reply |-> Reply("deleted", 0, <<>>)]
  ELSE IF result.error # <<>>
  THEN [thrown |-> FALSE, reply |-> Reply("error", 0, result.error)]
  ELSE [thrown |-> FALSE, reply |-> Reply("generic", 0, <<>>)]

\* what processCalendarMessage hands to its caller
Returned(succ, reply) == [thrown |-> FALSE, success |-> succ, response |-> reply]
Thrown == [thrown |-> TRUE, success |-> FALSE, response |-> NoReply]
NoFinal == Returned(FALSE, NoReply)

\* variant: the error is thrown on to the caller
OuterCatch_Rethrow(msg) == Thrown

\* the catch of processCalendarMessage, lines 62-68
OuterCatch(msg) == Returned(FALSE, Reply("sorry", 0, msg))

\* lines 57-60: the return after generateResponse handed back a reply
ReturnReply(result, reply) ==
  IF result.shape = "null" THEN OuterCatch(TypeErrorMsg)
  ELSE Returned(result.success # "false", reply)

\* outcome of one transport attempt of the synthesis call
SynthResponses == {"fail", "badshape", "content"}

\* generateResponse from the point where a transport handed back a response
\* (or the last transport failed), followed by lines 57-60
FinishReply(action, result, resp) ==
  IF resp = "content" THEN ReturnReply(result, ModelReply)
  ELSE LET fb == FallbackReply(action, result)
       IN  IF fb.thrown THEN OuterCatch(TypeErrorMsg) ELSE ReturnReply(result, fb.reply)

\* variant: every action outside the four enumerated ones counts as unknown
IsUnknownAction_Wide(a) == a \notin CalendarActions

\* variant: the unknown check is missing
IsUnknownAction_Never(a) == FALSE

\* line 19: intent.action === 'unknown'
IsUnknownAction(a) == a = "unknown"

\* the result of the default branch of the switch, lines 45-49
DefaultResult == Failure(<<"Unknown action">>)

\* ---------------------------------------------------------------- state
VARIABLES
  pc,        \* where the handling of the message stands
  host,      \* UTC offset of the host process
  apiKey,    \* OPENAI_API_KEY is set
  tokens,    \* stored calendar credentials of the user
  clock,     \* the instant read by the handler (NullDate before)
  cause,     \* how the classification ended
  output,    \* the model output the classifier read (NoText when none)
  intent,    \* what parseCalendarIntent returned
  matches,   \* what the search returned (NoSearch before)
  result,    \* the operation result
  built,     \* number of operation results built
  genCalls,  \* the generateResponse calls made: action and result passed
  calls,     \* the calls made to collaborators, in order
  final,     \* what processCalendarMessage handed back
  returns,   \* number of times processCalendarMessage handed back a value
  dres,      \* weekday resolver harness: the last application
  pdt,       \* parseDateTime harness: the last application
  fb,        \* the fallback of generateResponse: whether it ran, and its outcome
  hook,      \* webhook handler: the payload's messages and the sends attempted
  gce,       \* concurrent getCalendarEvents calls on the shared OAuth client
  verify,    \* webhook verification (GET /): the request and the answer
  oauth,     \* the users table and the OAuth link and callback requests
  storage    \* the cached file store: file, cache and the operations in flight

vars == <<pc, host, apiKey, tokens, clock, cause, output, intent, matches, result, built,
          genCalls, calls, final, returns, dres, pdt, fb, hook, gce, verify, oauth, storage>>

\* reference instants: 01:00:15.250 and 20:00 UTC of each reference day
Nows == {Instant(d, m) : d \in 0..(MaxRefDay - 1), m \in {MsPerHour + 15250, 20 * MsPerHour}}

NoIntent == NonObject("none")
NoDres == [name |-> Absent, from |-> NullDate, now |-> NullDate, out |-> NullDate]
NoPdt == [str |-> EmptyStr, timeStr |-> NullStr, now |-> NullDate, out |-> NullDate]
NoFb == [used |-> FALSE, thrown |-> FALSE, reply |-> NoReply]
NoHook == [msgs |-> <<>>, i |-> 0, sends |-> <<>>, phase |-> "idle"]
\* credentials: whose they are, how often refreshed, past their expiry_date
Creds(owner, gen, expired) == [owner |-> owner, gen |-> gen, expired |-> expired]
NoCreds == Creds(0, 0, FALSE)
NoGce == [at |-> <<>>, local |-> <<>>, store |-> <<>>, client |-> NoCreds, reqs |-> <<>>]
NoVerify == [mode |-> Absent, token |-> Absent, challenge |-> Absent, configured |-> Absent,
             status |-> 0, body |-> Absent]
NoOauth == <<>>
NoStorage == <<>>

Init ==
  /\ pc = "start"
  /\ host \in HostOffsets
  /\ apiKey \in BOOLEAN
  /\ tokens \in TokenStates
  /\ clock = NullDate
  /\ cause = "none"
  /\ output = NoText
  /\ intent = NoIntent
  /\ matches = NoSearch
  /\ result = UndefinedResult
  /\ built = 0
  /\ genCalls = <<>>
  /\ calls = <<>>
  /\ final = NoFinal
  /\ returns = 0
  /\ dres = NoDres
  /\ pdt = NoPdt
  /\ fb = NoFb
  /\ hook = NoHook
  /\ gce = NoGce
  /\ verify = NoVerify
  /\ oauth = NoOauth
  /\ storage = NoStorage

\* ------------------------------------------------------- classification
\* how a classification attempt that handed back a response ended
CauseOf(r) ==
  CASE r.kind = "fail" -> "callfail"
    [] r.kind = "badshape" -> "badshape"
    [] ~r.text.json -> "notjson"
    [] OTHER -> "parsed"

Classified(r) ==
  /\ intent' = ContentToIntent(r)
  /\ cause' = CauseOf(r)
  /\ output' = IF r.kind = "content" THEN r.text ELSE NoText
  /\ pc' = "dispatch"

\* variant: a failed attempt is always followed by a library attempt
NextTransport_Retry(t) == "lib"

\* variant: no transport is tried after a failed attempt
NextTransport_CurlOnly(t) == "none"

\* lines 145-174: the transport tried after a failed attempt of transport t;
\* the library attempt sits in the catch of the curl attempt and has no catch
\* of its own
NextTransport(t) == IF t = "curl" THEN "lib" ELSE "none"

\* parseCalendarIntent up to the end of the curl attempt (lines 71-152)
ClassifyCurl ==
  /\ pc = "start"
  /\ IF ~apiKey
     THEN /\ intent' = ClassifyCatch
          /\ cause' = "nokey"
          /\ pc' = "dispatch"
          /\ UNCHANGED <<output, calls>>
     ELSE \E r \in ClassifyResponses :
            /\ calls' = Append(calls, [Call("classify.curl") EXCEPT !.threw = r.kind = "fail"])
            /\ IF r.kind = "fail" /\ NextTransport("curl") = "lib"
               THEN pc' = "classify_lib" /\ UNCHANGED <<intent, cause, output>>
               ELSE Classified(r)
  /\ UNCHANGED <<host, apiKey, tokens, clock, matches, result, built, genCalls, final,
                 returns, dres, pdt, fb, hook, gce, verify, oauth, storage>>

\* the library attempt after a failed curl attempt (lines 152-174), raced
\* against the 20 s timer
ClassifyLib ==
  /\ pc = "classify_lib"
  /\ \E r \in ClassifyResponses :
       /\ calls' = Append(calls, [Call("classify.lib") EXCEPT !.threw = r.kind = "fail"])
       /\ IF r.kind = "fail" /\ NextTransport("lib") = "lib"
          THEN pc' = "classify_lib" /\ UNCHANGED <<intent, cause, output>>
          ELSE Classified(r)
  /\ UNCHANGED <<host, apiKey, tokens, clock, matches, result, built, genCalls, final,
                 returns, dres, pdt, fb, hook, gce, verify, oauth, storage>>

\* ------------------------------------------------- processCalendarMessage
\* variant: update and delete go to the write without the search
HandlerPc_SkipSearch(a) ==
  CASE a = "read_events" -> "read"
    [] a = "create_event" -> "create"
    [] a = "update_event" -> "update_write"
    [] OTHER -> "delete_write"

\* lines 31-50: the handler the switch awaits for each action
HandlerPc(a) ==
  CASE a = "read_events" -> "read"
    [] a = "create_event" -> "create"
    [] a = "update_event" -> "update_search"
    [] OTHER -> "delete_search"

\* lines 19-50: the unknown check and the switch
Dispatch ==
  /\ pc = "dispatch"
  /\ IF intent.shape = "null"
     THEN /\ final' = OuterCatch(TypeErrorMsg)
          /\ returns' = returns + 1
          /\ pc' = "done"
          /\ UNCHANGED <<result, built>>
     ELSE IF IsUnknownAction(intent.action)
     THEN /\ final' = Returned(FALSE, HelpReply)
          /\ returns' = returns + 1
          /\ pc' = "done"
          /\ UNCHANGED <<result, built>>
     ELSE IF intent.action \in CalendarActions
     THEN /\ pc' = HandlerPc(intent.action)
          /\ UNCHANGED <<result, built, final, returns>>
     ELSE /\ result' = DefaultResult
          /\ built' = built + 1
          /\ pc' = "synth"
          /\ UNCHANGED <<final, returns>>
  /\ UNCHANGED <<host, apiKey, tokens, clock, cause, output, intent, matches, genCalls,
                 calls, dres, pdt, fb, hook, gce, verify, oauth, storage>>

\* a handler handed its result back to the switch
Built(res) ==
  /\ result' = res
  /\ built' = built + 1
  /\ pc' = "synth"

HandleReadEvents ==
  /\ pc = "read"
  /\ \E now \in Nows, refreshOk \in BOOLEAN, list \in ListOutcomes :
       LET h == HandleReadEventsOp(intent.hasParams, intent.p, now, host, tokens, refreshOk, list)
       IN  /\ Built(h.res)
           /\ calls' = calls \o h.calls
           /\ tokens' = h.tok
           /\ clock' = now
  /\ UNCHANGED <<host, apiKey, cause, output, intent, matches, genCalls, final, returns, dres, pdt, fb, hook, gce, verify, oauth, storage>>

HandleCreateEvent ==
  /\ pc = "create"
  /\ \E outcome \in WriteOutcomes :
       LET h == HandleCreateEventOp(intent.hasParams, intent.p, host, outcome)
       IN  /\ Built(h.res)
           /\ calls' = calls \o h.calls
  /\ UNCHANGED <<host, apiKey, tokens, clock, cause, output, intent, matches, genCalls,
                 final, returns, dres, pdt, fb, hook, gce, verify, oauth, storage>>

\* handleUpdateEvent / handleDeleteEvent up to the end of the search
\* (lines 195-213 / 239-257)
HandleSearch(verb, writePc) ==
  /\ IF ~intent.hasParams
     THEN Built(Failure(TypeErrorMsg)) /\ UNCHANGED <<calls, matches>>
     ELSE IF SearchQueryError(intent.p, verb) # <<>>
     THEN Built(Failure(SearchQueryError(intent.p, verb))) /\ UNCHANGED <<calls, matches>>
     ELSE \E s \in SearchOutcomes :
            /\ calls' = Append(calls, [Call("search") EXCEPT !.q = intent.p.searchQuery,
                                                             !.threw = s.kind = "throw"])
            /\ matches' = s
            /\ IF s.kind = "throw"
               THEN Built(Failure(CalendarErrorMsg))
               ELSE IF NoMatch(s)
               THEN Built(Failure(NoEventsFound(intent.p.searchQuery)))
               ELSE /\ pc' = writePc
                    /\ UNCHANGED <<result, built>>
  /\ UNCHANGED <<host, apiKey, tokens, clock, cause, output, intent, genCalls, final,
                 returns, dres, pdt, fb, hook, gce, verify, oauth, storage>>

HandleUpdateSearch == pc = "update_search" /\ HandleSearch("update", "update_write")

HandleDeleteSearch == pc = "delete_search" /\ HandleSearch("delete", "delete_write")

\* lines 215-225 of handleUpdateEvent with the catch of lines 226-232
HandleUpdateWrite ==
  /\ pc = "update_write"
  /\ \E outcome \in WriteOutcomes :
       /\ calls' = Append(calls, [Call("update") EXCEPT !.id = FirstMatch(matches.items),
                                                        !.updates = intent.p.updates,
                                                        !.threw = outcome = "throw"])
       /\ Built(IF outcome = "throw" THEN Failure(CalendarErrorMsg)
                ELSE WriteResult(outcome, "updatedEvent"))
  /\ UNCHANGED <<host, apiKey, tokens, clock, cause, output, intent, matches, genCalls,
                 final, returns, dres, pdt, fb, hook, gce, verify, oauth, storage>>

\* lines 259-269 of handleDeleteEvent with the catch of lines 270-276
HandleDeleteWrite ==
  /\ pc = "delete_write"
  /\ \E outcome \in WriteOutcomes :
       /\ calls' = Append(calls, [Call("delete") EXCEPT !.id = FirstMatch(matches.items),
                                                        !.threw = outcome = "throw"])
       /\ Built(DeleteResult(outcome, FirstMatch(matches.items)))
  /\ UNCHANGED <<host, apiKey, tokens, clock, cause, output, intent, matches, genCalls,
                 final, returns, dres, pdt, fb, hook, gce, verify, oauth, storage>>

\* what the fallback of generateResponse did, when it ran
FallbackRun(action, res, resp) ==
  IF resp = "content" THEN NoFb
  ELSE [used |-> TRUE, thrown |-> FallbackReply(action, res).thrown,
        reply |-> FallbackReply(action, res).reply]

Finished(resp) ==
  /\ final' = FinishReply(intent.action, result, resp)
  /\ fb' = FallbackRun(intent.action, result, resp)
  /\ returns' = returns + 1
  /\ pc' = "done"

\* line 55, generateResponse up to the end of its curl attempt
SynthCurl ==
  /\ pc = "synth"
  /\ genCalls' = Append(genCalls, [action |-> intent.action, result |-> result])
  /\ \E r \in SynthResponses :
       /\ calls' = Append(calls, [Call("synth.curl") EXCEPT !.threw = r = "fail"])
       /\ IF r = "fail"
          THEN pc' = "synth_lib" /\ UNCHANGED <<final, returns, fb>>
          ELSE Finished(r)
  /\ UNCHANGED <<host, apiKey, tokens, clock, cause, output, intent, matches, result,
                 built, dres, pdt, hook, gce, verify, oauth, storage>>

\* the library attempt of generateResponse, then lines 57-60
SynthLib ==
  /\ pc = "synth_lib"
  /\ \E r \in SynthResponses :
       /\ calls' = Append(calls, [Call("synth.lib") EXCEPT !.threw = r = "fail"])
       /\ Finished(r)
  /\ UNCHANGED <<host, apiKey, tokens, clock, cause, output, intent, matches, result,
                 built, genCalls, dres, pdt, hook, gce, verify, oauth, storage>>

Next ==
  \/ ClassifyCurl
  \/ ClassifyLib
  \/ Dispatch
  \/ HandleReadEvents
  \/ HandleCreateEvent
  \/ HandleUpdateSearch
  \/ HandleDeleteSearch
  \/ HandleUpdateWrite
  \/ HandleDeleteWrite
  \/ SynthCurl
  \/ SynthLib

Spec == Init /\ [][Next]_vars

\* ------------------------------------- a collaborator that never answers
\* execSync(curl ..., {timeout: 20000}), with curl --max-time 15
CurlTimeout == 20000
\* the timer the library call is raced against
LibraryTimeout == 20000
\* executeQuery(queryFn, timeoutMs = 10000) of userStorage.js
QueryTimeout == 10000
\* a bare await
NoTimeout == 0

\* the time (ms) after which a call that got no answer is given up as failed
TimeoutOf(fn) ==
  CASE fn \in {"classify.curl", "synth.curl"} -> CurlTimeout
    [] fn \in {"classify.lib", "synth.lib"} -> LibraryTimeout
    [] fn \in {"getUserByPhone", "saveCalendarTokens"} -> QueryTimeout
    [] fn \in {"refresh", "list"} -> NoTimeout

\* the external calls getCalendarEvents makes, in order, when all answer
GetCalendarEventsCalls(tok) ==
  CASE tok = "none" -> <<Call("getUserByPhone")>>
    [] tok = "valid" -> <<Call("getUserByPhone"), Call("list")>>
    [] tok = "expired" -> <<Call("getUserByPhone"), Call("refresh"),
                           Call("saveCalendarTokens"), Call("list")>>

\* the external calls the next step of the handling makes
PendingCalls ==
  CASE pc = "start" -> IF apiKey THEN <<Call("classify.curl")>> ELSE <<>>
    [] pc = "classify_lib" -> <<Call("classify.lib")>>
    [] pc = "read" -> IF intent.hasParams /\ intent.p.date # BadDay
                      THEN GetCalendarEventsCalls(tokens) ELSE <<>>
    [] pc = "synth" -> <<Call("synth.curl")>>
    [] pc = "synth_lib" -> <<Call("synth.lib")>>
    [] OTHER -> <<>>

\* the step taken when the call that got no answer is given up: the same as
\* for any other failure of that call
TimedOut ==
  CASE pc = "start" ->
         /\ pc' = "classify_lib"
         /\ UNCHANGED <<intent, cause, output, result, built, final, returns, fb>>
    [] pc = "classify_lib" ->
         /\ Classified(LLMFail)
         /\ UNCHANGED <<result, built, final, returns, fb>>
    [] pc = "read" ->
         /\ Built(Failure(CalendarErrorMsg))
         /\ UNCHANGED <<intent, cause, output, final, returns, fb>>
    [] pc = "synth" ->
         /\ pc' = "synth_lib"
         /\ UNCHANGED <<intent, cause, output, result, built, final, returns, fb>>
    [] pc = "synth_lib" ->
         /\ Finished("fail")
         /\ UNCHANGED <<intent, cause, output, result, built>>

\* one of the external calls of the next step never gets an answer (the
\* calls before it in that step were answered): with a timeout the call
\* fails, without one the handling waits on it for ever
ServiceSilent ==
  /\ \E now \in (IF pc = "read" THEN Nows ELSE {clock}), i \in 1..Len(PendingCalls) :
       LET made == SubSeq(PendingCalls, 1, i)
           ask == IF pc = "read"
                  THEN <<[Call("getCalendarEvents")
                            EXCEPT !.tmin = ReadWindow(intent.p, now, host).tmin,
                                   !.tmax = ReadWindow(intent.p, now, host).tmax]>>
                  ELSE <<>>
       IN  /\ calls' = calls \o ask \o made
           /\ clock' = IF pc = "read" THEN now ELSE clock
           /\ tokens' = IF \E j \in 1..(i - 1) : made[j].fn = "saveCalendarTokens"
                        THEN "valid" ELSE tokens
           /\ genCalls' = IF pc = "synth"
                          THEN Append(genCalls, [action |-> intent.action, result |-> result])
                          ELSE genCalls
           /\ IF TimeoutOf(made[i].fn) = NoTimeout
              THEN /\ pc' = "hung"
                   /\ UNCHANGED <<intent, cause, output, result, built, final, returns, fb>>
              ELSE TimedOut
  /\ UNCHANGED <<host, apiKey, matches, dres, pdt, hook, gce, verify, oauth, storage>>

NextSilent == Next \/ ServiceSilent

SpecSilent == Init /\ [][NextSilent]_vars

\* ------------------------------------------------- the webhook, app.js
\* The handler of POST / answers 200 and then walks the messages of the
\* payload (the entries, their changes and their messages, in order; here
\* one list) inside a single try block.
MessageKinds == {"nontext", "link", "calendar", "other"}
Payloads == UNION {[1..n -> MessageKinds] : n \in 0..MaxMessages}
\* sendWhatsAppMessage resolves, or logs the error and throws it again
SendOutcomes == {"ok", "fail"}
\* a userStorage call resolves or throws
StoreOutcomes == {"ok", "throw"}

InitHook ==
  /\ pc = "webhook"
  /\ host \in HostOffsets
  /\ apiKey = TRUE
  /\ tokens \in TokenStates
  /\ clock = NullDate
  /\ cause = "none"
  /\ output = NoText
  /\ intent = NoIntent
  /\ matches = NoSearch
  /\ result = UndefinedResult
  /\ built = 0
  /\ genCalls = <<>>
  /\ calls = <<>>
  /\ final = NoFinal
  /\ returns = 0
  /\ dres = NoDres
  /\ pdt = NoPdt
  /\ fb = NoFb
  /\ hook \in {[msgs |-> m, i |-> 1, sends |-> [j \in 1..Len(m) |-> 0],
                phase |-> IF Len(m) = 0 THEN "finished" ELSE "running"] : m \in Payloads}
  /\ gce = NoGce
  /\ verify = NoVerify
  /\ oauth = NoOauth
  /\ storage = NoStorage

\* the message the loop is at
AtMessage(kind) ==
  /\ pc = "webhook" /\ hook.phase = "running"
  /\ hook.msgs[hook.i] = kind

\* the loop after n send attempts for the message it is at: on to the next
\* message, or, when something threw, out of all loops into the catch of
\* line 218
AfterMessage(n, threw) ==
  [hook EXCEPT !.sends[hook.i] = n,
               !.i = IF threw THEN hook.i ELSE hook.i + 1,
               !.phase = IF threw THEN "aborted"
                         ELSE IF hook.i = Len(hook.msgs) THEN "finished" ELSE "running"]

\* line 150: a message that is no text message
HookSkipNonText ==
  /\ AtMessage("nontext")
  /\ hook' = AfterMessage(0, FALSE)
  /\ UNCHANGED <<pc, host, apiKey, tokens, clock, cause, output, intent, matches, result,
                 built, genCalls, calls, final, returns, dres, pdt, fb, gce, verify, oauth, storage>>

\* lines 155-170: '/link-calendar'
HookLinkCalendar ==
  /\ AtMessage("link")
  /\ \E store \in StoreOutcomes, send \in SendOutcomes :
       /\ hook' = IF store = "throw" THEN AfterMessage(0, TRUE)
                  ELSE AfterMessage(1, send = "fail")
       /\ calls' = calls \o (IF store = "throw" THEN <<Call("setPendingOAuth")>>
                             ELSE <<Call("setPendingOAuth"), Call("send")>>)
  /\ UNCHANGED <<pc, host, apiKey, tokens, clock, cause, output, intent, matches, result,
                 built, genCalls, final, returns, dres, pdt, fb, gce, verify, oauth, storage>>

\* lines 171-205: '/calendar'
HookShowCalendar ==
  /\ AtMessage("calendar")
  /\ \E lookup \in StoreOutcomes, refreshOk \in BOOLEAN, list \in ListOutcomes,
        send \in SendOutcomes, sorry \in SendOutcomes :
       LET got == GetCalendarEvents(tokens, refreshOk, list)
       IN  IF lookup = "throw"
           THEN /\ hook' = AfterMessage(0, TRUE)
                /\ calls' = Append(calls, Call("getUserByPhone"))
                /\ UNCHANGED tokens
           ELSE IF tokens = "none"
           THEN /\ hook' = AfterMessage(1, send = "fail")
                /\ calls' = calls \o <<Call("getUserByPhone"), Call("send")>>
                /\ UNCHANGED tokens
           ELSE /\ tokens' = got.tok
                /\ IF got.thrown
                   THEN /\ hook' = AfterMessage(1, sorry = "fail")
                        /\ calls' = calls \o <<Call("getUserByPhone")>> \o got.calls
                                          \o <<Call("send")>>
                   ELSE IF send = "ok"
                   THEN /\ hook' = AfterMessage(1, FALSE)
                        /\ calls' = calls \o <<Call("getUserByPhone")>> \o got.calls
                                          \o <<Call("send")>>
                   ELSE /\ hook' = AfterMessage(2, sorry = "fail")
                        /\ calls' = calls \o <<Call("getUserByPhone")>> \o got.calls
                                          \o <<Call("send"), Call("send")>>
  /\ UNCHANGED <<pc, host, apiKey, clock, cause, output, intent, matches, result,
                 built, genCalls, final, returns, dres, pdt, fb, gce, verify, oauth, storage>>

\* lines 206-210: the default reply
HookDefaultReply ==
  /\ AtMessage("other")
  /\ \E send \in SendOutcomes :
       hook' = AfterMessage(1, send = "fail")
  /\ calls' = Append(calls, Call("send"))
  /\ UNCHANGED <<pc, host, apiKey, tokens, clock, cause, output, intent, matches, result,
                 built, genCalls, final, returns, dres, pdt, fb, gce, verify, oauth, storage>>

NextHook ==
  \/ HookSkipNonText
  \/ HookLinkCalendar
  \/ HookShowCalendar
  \/ HookDefaultReply

SpecWebhook == InitHook /\ [][NextHook]_vars

\* ------------------- concurrent getCalendarEvents calls, one OAuth client
\* Each phone number has one getCalendarEvents call in flight.  The calls
\* share oauth2Client (app.js:45); a call runs without interruption from one
\* await to the next, and the calls interleave at their awaits.
Phones == 1..MaxPhones

\* what is stored for a phone number: nothing, valid or expired tokens
StoredTokens(p) == {NoCreds, Creds(p, 0, FALSE), Creds(p, 0, TRUE)}

InitShared ==
  /\ pc = "shared"
  /\ host \in HostOffsets
  /\ apiKey = TRUE
  /\ tokens = "none"
  /\ clock = NullDate
  /\ cause = "none"
  /\ output = NoText
  /\ intent = NoIntent
  /\ matches = NoSearch
  /\ result = UndefinedResult
  /\ built = 0
  /\ genCalls = <<>>
  /\ calls = <<>>
  /\ final = NoFinal
  /\ returns = 0
  /\ dres = NoDres
  /\ pdt = NoPdt
  /\ fb = NoFb
  /\ hook = NoHook
  /\ verify = NoVerify
  /\ oauth = NoOauth
  /\ storage = NoStorage
  /\ \E st \in [Phones -> UNION {StoredTokens(p) : p \in Phones}] :
       /\ \A p \in Phones : st[p] \in StoredTokens(p)
       /\ gce = [at |-> [p \in Phones |-> "lookup"],
                 local |-> [p \in Phones |-> NoCreds],
                 store |-> st,
                 client |-> NoCreds,
                 reqs |-> <<>>]

\* a request handed to the provider, with the credentials the client held
\* when the call was made
Request(kind, p, creds) == [kind |-> kind, phone |-> p, creds |-> creds]

\* variant: the client is left as it is after the save
ClientAfterSave_Keep(client, credentials) == client

\* line 108: oauth2Client.setCredentials(credentials)
ClientAfterSave(client, credentials) == credentials

\* variant: the expiry of the stored tokens is not looked at
NeedsRefresh_Never(user) == FALSE

\* line 105: expiry_date is there and expiry_date <= Date.now()
NeedsRefresh(user) == user.expired

\* lines 96-118, from the answer of getUserByPhone to the next await: return
\* null without tokens; else setCredentials and, for expired tokens, the
\* refresh request, for valid ones the list request
GceLookup(p) ==
  /\ pc = "shared" /\ gce.at[p] = "lookup"
  /\ LET user == gce.store[p]
     IN  IF user = NoCreds
         THEN gce' = [gce EXCEPT !.at[p] = "done"]
         ELSE gce' = [gce EXCEPT !.client = user,
                                 !.at[p] = IF NeedsRefresh(user) THEN "refreshing" ELSE "listing",
                                 !.reqs = Append(@, Request(IF NeedsRefresh(user) THEN "refresh"
                                                            ELSE "list", p, user))]
  /\ UNCHANGED <<pc, host, apiKey, tokens, clock, cause, output, intent, matches, result,
                 built, genCalls, calls, final, returns, dres, pdt, fb, hook, verify, oauth, storage>>

\* lines 106-107: the refresh answers with fresh credentials for the tokens
\* the request carried (the client library may install them in the client as
\* well), and the save for this phone number is started; or it throws
GceRefreshed(p) ==
  /\ pc = "shared" /\ gce.at[p] = "refreshing"
  /\ \E ok \in BOOLEAN, installs \in BOOLEAN :
       LET sent == CHOOSE i \in 1..Len(gce.reqs) :
                     gce.reqs[i].kind = "refresh" /\ gce.reqs[i].phone = p
           credentials == Creds(gce.reqs[sent].creds.owner, gce.reqs[sent].creds.gen + 1, FALSE)
       IN  IF ~ok
           THEN gce' = [gce EXCEPT !.at[p] = "failed"]
           ELSE gce' = [gce EXCEPT !.local[p] = credentials,
                                   !.client = IF installs THEN credentials ELSE @,
                                   !.at[p] = "saving"]
  /\ UNCHANGED <<pc, host, apiKey, tokens, clock, cause, output, intent, matches, result,
                 built, genCalls, calls, final, returns, dres, pdt, fb, hook, verify, oauth, storage>>

\* lines 107-118: saveCalendarTokens(phoneNumber, credentials) answers, then
\* setCredentials(credentials) and the list request; or the save throws
GceSaved(p) ==
  /\ pc = "shared" /\ gce.at[p] = "saving"
  /\ \E ok \in BOOLEAN :
       IF ~ok
       THEN gce' = [gce EXCEPT !.at[p] = "failed"]
       ELSE LET client == ClientAfterSave(gce.client, gce.local[p])
            IN  gce' = [gce EXCEPT !.store[p] = gce.local[p],
                                   !.client = client,
                                   !.at[p] = "listing",
                                   !.reqs = Append(@, Request("list", p, client))]
  /\ UNCHANGED <<pc, host, apiKey, tokens, clock, cause, output, intent, matches, result,
                 built, genCalls, calls, final, returns, dres, pdt, fb, hook, verify, oauth, storage>>

\* lines 112-124: the list request answers or throws
GceListed(p) ==
  /\ pc = "shared" /\ gce.at[p] = "listing"
  /\ \E ok \in BOOLEAN :
       gce' = [gce EXCEPT !.at[p] = IF ok THEN "done" ELSE "failed"]
  /\ UNCHANGED <<pc, host, apiKey, tokens, clock, cause, output, intent, matches, result,
                 built, genCalls, calls, final, returns, dres, pdt, fb, hook, verify, oauth, storage>>

NextShared ==
  \E p \in Phones :
    \/ GceLookup(p)
    \/ GceRefreshed(p)
    \/ GceSaved(p)
    \/ GceListed(p)

SpecShared == InitShared /\ [][NextShared]_vars

\* ------------------------------------------ webhook verification, GET /
\* values of a query parameter / of the VERIFY_TOKEN environment variable;
\* Absent is a parameter that was not sent, a variable that is not set
ModeValues == {Absent, "subscribe", "unsubscribe"}
TokenValues == {Absent, "", "secret", "wrong"}
ConfiguredTokens == {Absent, "", "secret"}
ChallengeValues == {Absent, "test123", "0", "1158201444"}

InitVerify ==
  /\ pc = "verify"
  /\ host \in HostOffsets
  /\ apiKey = TRUE
  /\ tokens = "none"
  /\ clock = NullDate
  /\ cause = "none"
  /\ output = NoText
  /\ intent = NoIntent
  /\ matches = NoSearch
  /\ result = UndefinedResult
  /\ built = 0
  /\ genCalls = <<>>
  /\ calls = <<>>
  /\ final = NoFinal
  /\ returns = 0
  /\ dres = NoDres
  /\ pdt = NoPdt
  /\ fb = NoFb
  /\ hook = NoHook
  /\ gce = NoGce
  /\ verify \in {[mode |-> m, token |-> t, challenge |-> c, configured |-> v,
                  status |-> 0, body |-> Absent] :
                   m \in ModeValues, t \in TokenValues, c \in ChallengeValues,
                   v \in ConfiguredTokens}
  /\ oauth = NoOauth
  /\ storage = NoStorage

\* line 58: mode === 'subscribe' && token === verifyToken
Verified(mode, token, verifyToken) == mode = "subscribe" /\ token = verifyToken

\* res.send(challenge): the body sent, empty for undefined
SendBody(challenge) == IF challenge = Absent THEN "" ELSE challenge

\* app.get('/'), lines 55-64
VerifyWebhook ==
  /\ pc = "verify"
  /\ verify' = IF Verified(verify.mode, verify.token, verify.configured)
               THEN [verify EXCEPT !.status = 200, !.body = SendBody(verify.challenge)]
               ELSE [verify EXCEPT !.status = 403, !.body = ""]
  /\ pc' = "answered"
  /\ UNCHANGED <<host, apiKey, tokens, clock, cause, output, intent, matches, result,
                 built, genCalls, calls, final, returns, dres, pdt, fb, hook, gce,
                 oauth, storage>>

NextVerify == VerifyWebhook

SpecVerify == InitVerify /\ [][NextVerify]_vars

\* ------------------------------------------ users table (userStorage.js)
\* google_calendar_tokens / pending_oauth that are NULL, a phone number that
\* is undefined
NoTok == 0
NoState == 0
NoPhone == 0
\* a state token no link request generated
WrongState == MaxStates + 1

\* a row of the users table; exists is FALSE for a phone number without row
Row(tok, linked, linkedAt, pending) ==
  [exists |-> TRUE, tokens |-> tok, linked |-> linked, linkedAt |-> linkedAt,
   pending |-> pending]
NoRow == [exists |-> FALSE, tokens |-> NoTok, linked |-> FALSE, linkedAt |-> 0,
          pending |-> NoState]

\* the userData argument of saveUser; a field that is not given is undefined
UserData(tok, linked, linkedAt, pending) ==
  [tokens |-> tok, linked |-> linked, linkedAt |-> linkedAt, pending |-> pending]

\* variant: the update takes the new values as they are
SaveUser_Overwrite(row, d) == Row(d.tokens, d.linked = "true", d.linkedAt, d.pending)

\* saveUser, lines 170-213: the INSERT for a new phone number, and for an
\* existing one the update that keeps a column whose new value is NULL
\* (an undefined parameter is sent as NULL)
SaveUser(row, d) ==
  IF ~row.exists
  THEN Row(d.tokens, d.linked = "true", d.linkedAt, d.pending)
  ELSE Row(IF d.tokens # NoTok THEN d.tokens ELSE row.tokens,
           IF d.linked # "absent" THEN d.linked = "true" ELSE row.linked,
           IF d.linkedAt # 0 THEN d.linkedAt ELSE row.linkedAt,
           IF d.pending # NoState THEN d.pending ELSE row.pending)

\* saveUser of the cached file store (part_002, lines 91-109): a field that
\* is undefined keeps the value of the existing record
SaveUserFile(row, d) ==
  Row(IF d.tokens # NoTok THEN d.tokens ELSE row.tokens,
      IF d.linked # "absent" THEN d.linked = "true" ELSE row.linked,
      IF d.linkedAt # 0 THEN d.linkedAt ELSE row.linkedAt,
      IF d.pending # NoState THEN d.pending ELSE row.pending)

\* the saveUser of the storage module in use
SaveUserOf(backend, row, d) ==
  IF backend = "file" THEN SaveUserFile(row, d) ELSE SaveUser(row, d)

\* saveCalendarTokens: tokens, calendarLinked = true and the time of the save
SaveCalendarTokens(row, tok, at) == SaveUser(row, UserData(tok, "true", at, NoState))

\* setPendingOAuth
SetPendingOAuth(row, s) == SaveUser(row, UserData(NoTok, "absent", 0, s))

\* clearPendingOAuth: UPDATE ... SET pending_oauth = NULL
ClearPendingOAuth(row) == IF row.exists THEN [row EXCEPT !.pending = NoState] ELSE row

\* the rows getAllUsers hands back, lines 259-277: no tokens column is read
GetAllUsers(db) ==
  {[phoneNumber |-> p, calendarLinked |-> db[p].linked,
    calendarLinkedAt |-> db[p].linkedAt] : p \in {q \in DOMAIN db : db[q].exists}}

\* user.googleCalendarTokens of a row of getAllUsers: a field the row has not
UserTokens(user) == IF "googleCalendarTokens" \in DOMAIN user THEN user.googleCalendarTokens
                    ELSE NoTok

\* app.get('/api/users'), lines 329-334: the sanitized user
SanitizedUser(user) ==
  [phoneNumber |-> user.phoneNumber,
   calendarLinked |-> UserTokens(user) # NoTok,
   calendarLinkedAt |-> user.calendarLinkedAt]

\* ------------------------------------------------ OAuth linking (app.js)
StateIds == 1..MaxStates
Callbacks == 1..MaxCallbacks

NoLink == [phone |-> NoPhone, via |-> "none", at |-> "unused", handed |-> FALSE]
IdleCallback ==
  [at |-> "idle", code |-> FALSE, shape |-> "absent", tok |-> NoState, phone |-> NoPhone,
   looked |-> FALSE, seen |-> NoState, status |-> 0]

\* rows the table may hold when the routes start being used
InitialRows == {NoRow, Row(NoTok, FALSE, 0, NoState)}

InitOAuth ==
  /\ pc = "oauth"
  /\ host = HomeOffset
  /\ apiKey = TRUE
  /\ tokens = "none"
  /\ clock = NullDate
  /\ cause = "none"
  /\ output = NoText
  /\ intent = NoIntent
  /\ matches = NoSearch
  /\ result = UndefinedResult
  /\ built = 0
  /\ genCalls = <<>>
  /\ calls = <<>>
  /\ final = NoFinal
  /\ returns = 0
  /\ dres = NoDres
  /\ pdt = NoPdt
  /\ fb = NoFb
  /\ hook = NoHook
  /\ gce = NoGce
  /\ verify = NoVerify
  /\ storage = NoStorage
  /\ \E row \in InitialRows :
       oauth = [db |-> [p \in Phones |-> row],
                next |-> 1,
                links |-> [s \in StateIds |-> NoLink],
                cbs |-> [c \in Callbacks |-> IdleCallback],
                saves |-> <<>>,
                exchanges |-> 0]

OAuthIdle ==
  UNCHANGED <<pc, host, apiKey, tokens, clock, cause, output, intent, matches, result,
              built, genCalls, calls, final, returns, dres, pdt, fb, hook, gce, verify,
              storage>>

\* a statement changed the row of phone number p
Wrote(o, p, row) == [o EXCEPT !.db[p] = row]

\* app.get('/auth/google'), lines 225-241, for a request that names a phone
\* number (one without is answered 400 and changes nothing): the state is
\* generated, setPendingOAuth is started and not awaited, and the redirect
\* to the OAuth URL is sent
AuthGoogle(p) ==
  /\ pc = "oauth"
  /\ oauth.next <= MaxStates
  /\ oauth' = [oauth EXCEPT !.links[oauth.next] =
                              [phone |-> p, via |-> "web", at |-> "writing", handed |-> TRUE],
                            !.next = @ + 1]
  /\ OAuthIdle

\* app.post('/'), lines 155-159: the link-calendar command generates the
\* state and awaits setPendingOAuth
WhatsAppLink(p) ==
  /\ pc = "oauth"
  /\ oauth.next <= MaxStates
  /\ oauth' = [oauth EXCEPT !.links[oauth.next] =
                              [phone |-> p, via |-> "whatsapp", at |-> "writing",
                               handed |-> FALSE],
                            !.next = @ + 1]
  /\ OAuthIdle

\* outcomes of saveUser: the row is written and read back, the statement
\* fails, or the row is written and reading it back fails
SaveOutcomes == {"ok", "fail", "written_fail"}

\* the setPendingOAuth of a link request takes effect or fails; the WhatsApp
\* branch then sends the URL (lines 161-170) unless the save threw, and the
\* send may fail
PendingSaved(s) ==
  /\ pc = "oauth"
  /\ oauth.links[s].at = "writing"
  /\ \E out \in SaveOutcomes, sent \in BOOLEAN :
       LET l == oauth.links[s]
           o == IF out = "fail" THEN oauth
                ELSE Wrote(oauth, l.phone, SetPendingOAuth(oauth.db[l.phone], s))
       IN  oauth' = [o EXCEPT !.links[s].at = IF out = "ok" THEN "done" ELSE "failed",
                              !.links[s].handed =
                                IF l.via = "web" THEN TRUE ELSE out = "ok" /\ sent]
  /\ OAuthIdle

\* state tokens generated so far
Generated == 1..(oauth.next - 1)

\* app.get('/auth/google/callback'), lines 245-255: up to the start of
\* getUserByPhone; state.split throws on a state that is undefined and the
\* catch answers 500
CallbackArrives(c) ==
  /\ pc = "oauth"
  /\ oauth.cbs[c].at = "idle"
  /\ \A b \in 1..(c - 1) : oauth.cbs[b].at # "idle"
  /\ \E code \in BOOLEAN, shape \in {"absent", "token", "full"},
        tok \in Generated \cup {WrongState}, phone \in Phones :
       LET cb == [IdleCallback EXCEPT !.code = code, !.shape = shape,
                                      !.tok = IF shape = "absent" THEN NoState ELSE tok,
                                      !.phone = IF shape = "full" THEN phone ELSE NoPhone]
       IN  oauth' = [oauth EXCEPT !.cbs[c] =
                       IF ~code THEN [IdleCallback EXCEPT !.at = "answered", !.status = 400]
                       ELSE IF shape = "absent"
                       THEN [cb EXCEPT !.at = "answered", !.status = 500]
                       ELSE [cb EXCEPT !.at = "lookup"]]
  /\ OAuthIdle

\* line 256: the negation of
\* !pendingOAuth || !pendingOAuth.pendingOAuth || pendingOAuth.pendingOAuth !== stateToken
StateMatches(user, stateToken) ==
  user.exists /\ user.pending # NoState /\ user.pending = stateToken

\* lines 255-261: getUserByPhone answers (or throws), the state is checked,
\* and getToken is called
CallbackLookedUp(c) ==
  /\ pc = "oauth"
  /\ oauth.cbs[c].at = "lookup"
  /\ \E ok \in BOOLEAN :
       LET cb == oauth.cbs[c]
           user == IF cb.phone = NoPhone THEN NoRow ELSE oauth.db[cb.phone]
       IN  IF ~ok
           THEN oauth' = [oauth EXCEPT !.cbs[c].at = "answered", !.cbs[c].status = 500]
           ELSE IF ~StateMatches(user, cb.tok)
           THEN oauth' = [oauth EXCEPT !.cbs[c].at = "answered", !.cbs[c].status = 400,
                                       !.cbs[c].looked = TRUE,
                                       !.cbs[c].seen = user.pending]
           ELSE oauth' = [oauth EXCEPT !.cbs[c].at = "exchange",
                                       !.cbs[c].looked = TRUE,
                                       !.cbs[c].seen = user.pending,
                                       !.exchanges = @ + 1]
  /\ OAuthIdle

\* lines 261-264: getToken answers with tokens or throws, and
\* saveCalendarTokens is called
CallbackExchanged(c) ==
  /\ pc = "oauth"
  /\ oauth.cbs[c].at = "exchange"
  /\ \E ok \in BOOLEAN :
       oauth' = IF ok THEN [oauth EXCEPT !.cbs[c].at = "save"]
                ELSE [oauth EXCEPT !.cbs[c].at = "answered", !.cbs[c].status = 500]
  /\ OAuthIdle

\* lines 264-265: saveCalendarTokens takes effect or fails, and
\* clearPendingOAuth is called
CallbackSaved(c) ==
  /\ pc = "oauth"
  /\ oauth.cbs[c].at = "save"
  /\ \E out \in SaveOutcomes :
       LET cb == oauth.cbs[c]
           o == IF out = "fail" THEN oauth
                ELSE [Wrote(oauth, cb.phone,
                            SaveCalendarTokens(oauth.db[cb.phone], c, c))
                        EXCEPT !.saves = Append(@, [s |-> cb.tok, phone |-> cb.phone,
                                                    cb |-> c])]
       IN  oauth' = IF out = "ok" THEN [o EXCEPT !.cbs[c].at = "clear"]
                    ELSE [o EXCEPT !.cbs[c].at = "answered", !.cbs[c].status = 500]
  /\ OAuthIdle

\* lines 265-280: clearPendingOAuth takes effect and the success page is
\* sent, or it fails and the catch answers 500
CallbackCleared(c) ==
  /\ pc = "oauth"
  /\ oauth.cbs[c].at = "clear"
  /\ \E ok \in BOOLEAN :
       LET cb == oauth.cbs[c]
       IN  oauth' = IF ok
                    THEN [Wrote(oauth, cb.phone, ClearPendingOAuth(oauth.db[cb.phone]))
                            EXCEPT !.cbs[c].at = "answered", !.cbs[c].status = 200]
                    ELSE [oauth EXCEPT !.cbs[c].at = "answered", !.cbs[c].status = 500]
  /\ OAuthIdle

NextOAuth ==
  \/ \E p \in Phones : AuthGoogle(p)
  \/ \E p \in Phones : WhatsAppLink(p)
  \/ \E s \in StateIds : PendingSaved(s)
  \/ \E c \in Callbacks : CallbackArrives(c)
  \/ \E c \in Callbacks : CallbackLookedUp(c)
  \/ \E c \in Callbacks : CallbackExchanged(c)
  \/ \E c \in Callbacks : CallbackSaved(c)
  \/ \E c \in Callbacks : CallbackCleared(c)

SpecOAuth == InitOAuth /\ [][NextOAuth]_vars

\* -------------------------------------- cached file store (part_002)
\* what is held for a phone number: nothing, a record from before, or the
\* record after the saveUser of the model
NoUser == 0
OldUser == 1
SavedUser == 2

\* contents of the file or of usersCache; on is FALSE for a file that does
\* not exist and for a cache that is null
Users(on, users) == [on |-> on, users |-> users]
NoUsers == Users(FALSE, [p \in Phones |-> NoUser])
EmptyUsers == Users(TRUE, [p \in Phones |-> NoUser])

\* runs of initStorage: the one of the module load, and one for every
\* saveUser whose ensureInitialized found the cache not initialized
ModuleLoad == 0
InitRuns == {ModuleLoad} \cup Phones

IdleInit == [at |-> "idle", err |-> "none", data |-> NoUsers]
IdleSave == [at |-> "idle", content |-> NoUsers, after |-> {}]

InitialFiles == {NoUsers} \cup {Users(TRUE, u) : u \in [Phones -> {NoUser, OldUser}]}

InitStore ==
  /\ pc = "store"
  /\ host = HomeOffset
  /\ apiKey = TRUE
  /\ tokens = "none"
  /\ clock = NullDate
  /\ cause = "none"
  /\ output = NoText
  /\ intent = NoIntent
  /\ matches = NoSearch
  /\ result = UndefinedResult
  /\ built = 0
  /\ genCalls = <<>>
  /\ calls = <<>>
  /\ final = NoFinal
  /\ returns = 0
  /\ dres = NoDres
  /\ pdt = NoPdt
  /\ fb = NoFb
  /\ hook = NoHook
  /\ gce = NoGce
  /\ verify = NoVerify
  /\ oauth = NoOauth
  /\ \E f \in InitialFiles :
       storage = [file |-> f,
                  usersCache |-> NoUsers,
                  cacheInitialized |-> FALSE,
                  inits |-> [i \in InitRuns |->
                               IF i = ModuleLoad THEN [IdleInit EXCEPT !.at = "reading"]
                               ELSE IdleInit],
                  saves |-> [p \in Phones |-> IdleSave]]

StoreIdle ==
  UNCHANGED <<pc, host, apiKey, tokens, clock, cause, output, intent, matches, result,
              built, genCalls, calls, final, returns, dres, pdt, fb, hook, gce, verify,
              oauth>>

\* line 16: fs.readFile answers with what the file holds at this moment,
\* with ENOENT for a file that is not there, or with another error (a file
\* that does not parse included)
InitRead(i) ==
  /\ pc = "store"
  /\ storage.inits[i].at = "reading"
  /\ \E ok \in BOOLEAN :
       storage' = [storage EXCEPT
                     !.inits[i] = [at |-> "read",
                                   err |-> IF ~ok THEN "other"
                                           ELSE IF storage.file.on THEN "none" ELSE "enoent",
                                   data |-> IF ok /\ storage.file.on THEN storage.file
                                            ELSE NoUsers]]
  /\ StoreIdle

\* line 17: usersCache = JSON.parse(data)
Loaded(cache, initialized, data) == data

\* lines 17-33, the continuation of initStorage after the read: the cache is
\* replaced by what was read; on ENOENT it is emptied and saveToFile is
\* started; on another error it is emptied
InitLoaded(i) ==
  /\ pc = "store"
  /\ storage.inits[i].at = "read"
  /\ LET run == storage.inits[i]
     IN  storage' =
           IF run.err = "none"
           THEN [storage EXCEPT !.usersCache = Loaded(storage.usersCache,
                                                      storage.cacheInitialized, run.data),
                                !.cacheInitialized = TRUE,
                                !.inits[i].at = "done"]
           ELSE IF run.err = "enoent"
           THEN [storage EXCEPT !.usersCache = EmptyUsers,
                                !.inits[i].at = "creating",
                                !.inits[i].data = EmptyUsers]
           ELSE [storage EXCEPT !.usersCache = EmptyUsers,
                                !.cacheInitialized = TRUE,
                                !.inits[i].at = "done"]
  /\ StoreIdle

\* lines 24-26: the saveToFile of a run that found no file answers; when it
\* throws, initStorage throws
InitCreated(i) ==
  /\ pc = "store"
  /\ storage.inits[i].at = "creating"
  /\ \E ok \in BOOLEAN :
       storage' = IF ok
                  THEN [storage EXCEPT !.file = storage.inits[i].data,
                                       !.cacheInitialized = TRUE,
                                       !.inits[i].at = "done"]
                  ELSE [storage EXCEPT !.inits[i].at = "failed"]
  /\ StoreIdle

\* phone numbers whose saveUser has returned
Returned_Saves == {p \in Phones : storage.saves[p].at = "returned"}

\* lines 92-112 of saveUser: the record is merged into the cache and
\* saveToFile is started with the cache as it is now
Merged(p) ==
  LET cache == [storage.usersCache EXCEPT !.users[p] = SavedUser]
  IN  [storage EXCEPT !.usersCache = cache,
                      !.saves[p] = [at |-> "writing", content |-> cache,
                                    after |-> Returned_Saves]]

\* saveUser(p, d) is called, lines 87-89: with the cache initialized it goes
\* on to the merge, else ensureInitialized starts a run of initStorage
SaveUserCalled(p) ==
  /\ pc = "store"
  /\ storage.saves[p].at = "idle"
  /\ storage' = IF storage.cacheInitialized THEN Merged(p)
                ELSE [storage EXCEPT !.saves[p].at = "init",
                                     !.inits[p].at = "reading"]
  /\ StoreIdle

\* the run of initStorage the saveUser waited for has ended: the merge, or
\* the catch of saveUser when the run threw
SaveUserResumes(p) ==
  /\ pc = "store"
  /\ storage.saves[p].at = "init"
  /\ storage.inits[p].at \in {"done", "failed"}
  /\ storage' = IF storage.inits[p].at = "done" THEN Merged(p)
                ELSE [storage EXCEPT !.saves[p].at = "failed"]
  /\ StoreIdle

\* lines 112-115: the saveToFile of saveUser answers and saveUser returns,
\* or it throws
SaveUserWritten(p) ==
  /\ pc = "store"
  /\ storage.saves[p].at = "writing"
  /\ \E ok \in BOOLEAN :
       storage' = IF ok
                  THEN [storage EXCEPT !.file = storage.saves[p].content,
                                       !.saves[p].at = "returned"]
                  ELSE [storage EXCEPT !.saves[p].at = "failed"]
  /\ StoreIdle

NextStore ==
  \/ \E i \in InitRuns : InitRead(i)
  \/ \E i \in InitRuns : InitLoaded(i)
  \/ \E i \in InitRuns : InitCreated(i)
  \/ \E p \in Phones : SaveUserCalled(p)
  \/ \E p \in Phones : SaveUserResumes(p)
  \/ \E p \in Phones : SaveUserWritten(p)

SpecStore == InitStore /\ [][NextStore]_vars

\* ------------------------------------- operations on the stored users
Backends == {"postgres", "file"}
NoOp == [kind |-> "none", phone |-> NoPhone, data |-> UserData(NoTok, "absent", 0, NoState)]
\* userData objects handed to saveUser
UserDatas ==
  {UserData(t, l, 0, s) : t \in {NoTok, 1}, l \in {"absent", "false"},
                          s \in {NoState, 1}}

InitUsers ==
  /\ pc = "users"
  /\ host = HomeOffset
  /\ apiKey = TRUE
  /\ tokens = "none"
  /\ clock = NullDate
  /\ cause = "none"
  /\ output = NoText
  /\ intent = NoIntent
  /\ matches = NoSearch
  /\ result = UndefinedResult
  /\ built = 0
  /\ genCalls = <<>>
  /\ calls = <<>>
  /\ final = NoFinal
  /\ returns = 0
  /\ dres = NoDres
  /\ pdt = NoPdt
  /\ fb = NoFb
  /\ hook = NoHook
  /\ gce = NoGce
  /\ verify = NoVerify
  /\ storage = NoStorage
  /\ \E backend \in Backends :
       oauth = [backend |-> backend,
                db |-> [p \in Phones |-> NoRow],
                prev |-> [p \in Phones |-> NoRow],
                op |-> NoOp,
                nops |-> 0,
                phase |-> "running",
                api |-> {}]

\* the state after one operation of the storage module on the record of
\* phone number p
Operated(kind, p, d, row) ==
  [oauth EXCEPT !.db[p] = row,
                !.prev = oauth.db,
                !.op = [kind |-> kind, phone |-> p, data |-> d],
                !.nops = @ + 1]

\* saveUser(p, d)
UsersSaveUser(p) ==
  /\ pc = "users" /\ oauth.phase = "running"
  /\ oauth.nops < MaxOps
  /\ \E d \in UserDatas :
       oauth' = Operated("saveUser", p, d, SaveUserOf(oauth.backend, oauth.db[p], d))
  /\ OAuthIdle

\* setPendingOAuth(p, s)
UsersSetPendingOAuth(p) ==
  /\ pc = "users" /\ oauth.phase = "running"
  /\ oauth.nops < MaxOps
  /\ \E s \in StateIds :
       LET d == UserData(NoTok, "absent", 0, s)
       IN  oauth' = Operated("setPendingOAuth", p, d,
                             SaveUserOf(oauth.backend, oauth.db[p], d))
  /\ OAuthIdle

\* saveCalendarTokens(p, tokens), at the time of the operation
UsersSaveCalendarTokens(p) ==
  /\ pc = "users" /\ oauth.phase = "running"
  /\ oauth.nops < MaxOps
  /\ \E t \in {1, 2} :
       LET d == UserData(t, "true", oauth.nops + 1, NoState)
       IN  oauth' = Operated("saveCalendarTokens", p, d,
                             SaveUserOf(oauth.backend, oauth.db[p], d))
  /\ OAuthIdle

\* clearPendingOAuth(p)
UsersClearPendingOAuth(p) ==
  /\ pc = "users" /\ oauth.phase = "running"
  /\ oauth.nops < MaxOps
  /\ oauth' = Operated("clearPendingOAuth", p, NoOp.data, ClearPendingOAuth(oauth.db[p]))
  /\ OAuthIdle

\* app.get('/api/users'), lines 326-344: the sanitized users, or the error
\* answer when getAllUsers throws
ApiUsers ==
  /\ pc = "users" /\ oauth.phase = "running"
  /\ \E ok \in BOOLEAN :
       oauth' = [oauth EXCEPT !.phase = IF ok THEN "reported" ELSE "report_failed",
                              !.api = IF ok THEN {SanitizedUser(u) : u \in GetAllUsers(oauth.db)}
                                      ELSE {}]
  /\ OAuthIdle

NextUsers ==
  \/ \E p \in Phones : UsersSaveUser(p)
  \/ \E p \in Phones : UsersSetPendingOAuth(p)
  \/ \E p \in Phones : UsersSaveCalendarTokens(p)
  \/ \E p \in Phones : UsersClearPendingOAuth(p)
  \/ ApiUsers

SpecUsers == InitUsers /\ [][NextUsers]_vars

\* ------------------------------------------- weekday resolver, on its own
\* reference dates handed to the resolver; NullDate is a call without one
RefDates ==
  {NullDate} \cup {Instant(d, m) : d \in 0..(MaxRefDay - 1),
                                   m \in {0, MsPerHour + 15250, 20 * MsPerHour, EndOfDay}}

InitDate ==
  /\ pc = "resolver"
  /\ host \in HostOffsets
  /\ apiKey = TRUE
  /\ tokens = "none"
  /\ clock = NullDate
  /\ cause = "none"
  /\ output = NoText
  /\ intent = NoIntent
  /\ matches = NoSearch
  /\ result = UndefinedResult
  /\ built = 0
  /\ genCalls = <<>>
  /\ calls = <<>>
  /\ final = NoFinal
  /\ returns = 0
  /\ dres = NoDres
  /\ pdt = NoPdt
  /\ fb = NoFb
  /\ hook = NoHook
  /\ gce = NoGce
  /\ verify = NoVerify
  /\ oauth = NoOauth
  /\ storage = NoStorage

\* one application of getNextDayOfWeek
ResolveDay ==
  /\ pc = "resolver"
  /\ \E name \in DayTokens, from \in RefDates :
       \E now \in (IF from = NullDate THEN Nows ELSE {NullDate}) :
         dres' = [name |-> name, from |-> from, now |-> now,
                  out |-> GetNextDayOfWeek(name, from, now, host)]
  /\ pc' = "resolved"
  /\ UNCHANGED <<host, apiKey, tokens, clock, cause, output, intent, matches, result,
                 built, genCalls, calls, final, returns, pdt, fb, hook, gce, verify, oauth, storage>>

\* one application of parseDateTime
ResolveDateTime ==
  /\ pc = "resolver"
  /\ \E in \in ParseInputs, now \in Nows :
       pdt' = [str |-> in.str, timeStr |-> in.timeStr, now |-> now,
               out |-> ParseDateTime(in.str, in.timeStr, now, host)]
  /\ pc' = "resolved"
  /\ UNCHANGED <<host, apiKey, tokens, clock, cause, output, intent, matches, result,
                 built, genCalls, calls, final, returns, dres, fb, hook, gce, verify, oauth, storage>>

NextDate == ResolveDay \/ ResolveDateTime

SpecDate == InitDate /\ [][NextDate]_vars

\* ================================================================ claims
CallsTo(fns) == SelectSeq(calls, LAMBDA c : c.fn \in fns)
WriteCalls == CallsTo({"create", "update", "delete"})
CalendarCalls ==
  CallsTo({"getCalendarEvents", "refresh", "saveCalendarTokens", "list", "search",
           "create", "update", "delete"})
AfterHandler == pc \in {"synth", "synth_lib", "done"}

\* C1: every intent whose action is not 'unknown' (an action outside the four
\* enumerated ones included) gets exactly one operation result, exactly one
\* generateResponse call, made for that result and action, and exactly one
\* reply; at no time is there more than one of any of them.
C1_OneResultOneReply ==
  /\ built <= 1 /\ Len(genCalls) <= 1 /\ returns <= 1
  /\ (pc = "done" /\ intent.shape # "null" /\ intent.action # "unknown")
       => /\ built = 1
          /\ genCalls = <<[action |-> intent.action, result |-> result]>>
          /\ returns = 1
          /\ final.response.kind \in ReplyKinds

C1_Witness ==
  /\ pc = "done" /\ intent.action = "book_flight"
  /\ built = 1 /\ Len(genCalls) = 1 /\ returns = 1

\* C2: processCalendarMessage never throws: whatever the classifier, the
\* calendar capabilities and the synthesis calls hand back or throw, the
\* handling ends, and it ends by returning a reply text; no state before the
\* end is stuck.
C2_NeverThrows ==
  /\ pc = "done" => (~final.thrown /\ returns = 1 /\ final.response.kind \in ReplyKinds)
  /\ pc # "done" => (ENABLED Next /\ returns = 0)

C2_Witness ==
  /\ pc = "done" /\ intent.shape = "null"
  /\ ~final.thrown /\ final.response.kind = "sorry"

\* C3 (as claimed): after a model-call failure, a timeout or a malformed
\* model output -- text that is no JSON, or JSON that is no intent object
\* (null, a number, an array, an object without action) -- the classifier
\* returns action 'unknown' with empty parameters.
C3_MalformedIsUnknown ==
  (/\ pc \notin {"start", "classify_lib"}
   /\ \/ cause \in {"nokey", "callfail", "badshape", "notjson"}
      \/ cause = "parsed" /\ (output.val.shape # "object" \/ output.val.action = Absent))
    => /\ intent.shape = "object" /\ intent.action = "unknown"
       /\ intent.hasParams /\ intent.p = EmptyParams

\* C4 (as claimed): a read for a user without stored credentials ends in a
\* failure result that can be told apart from the other failures as 'not
\* linked', and no list request is issued.
C4_NotLinkedFails ==
  (/\ AfterHandler /\ intent.action = "read_events" /\ tokens = "none"
   /\ Len(CallsTo({"getCalendarEvents"})) = 1)
    => /\ result.success = "false"
       /\ result.error \notin {<<>>, CalendarErrorMsg, TypeErrorMsg, RangeErrorMsg}
       /\ CallsTo({"list"}) = <<>>

\* C5: when the search of an update or delete returns no match (null or an
\* empty list), the handler returns success = false with an error text that
\* contains the searchQuery, and no write call is made.
C5_NoMatchNoWrite ==
  (matches.kind = "null" \/ (matches.kind = "items" /\ Len(matches.items) = 0))
    => /\ AfterHandler
       /\ intent.action \in {"update_event", "delete_event"}
       /\ built = 1
       /\ result.success = "false"
       /\ Contains(result.error, intent.p.searchQuery)
       /\ WriteCalls = <<>>

C5_Witness ==
  /\ pc = "done" /\ intent.action = "delete_event"
  /\ matches.kind = "items" /\ matches.items = <<>>
  /\ result.error = NoEventsFound("gym")

\* C6: when the search returns n >= 1 matches, the handling of the intent
\* makes exactly one write call, of the intent's kind, and its target is the
\* id of the first match; before the write step there is no write call.
C6_FirstMatchOnly ==
  (matches.kind = "items" /\ Len(matches.items) >= 1)
    => IF AfterHandler
       THEN /\ Len(WriteCalls) = 1
            /\ WriteCalls[1].id = matches.items[1]
            /\ WriteCalls[1].fn = (IF intent.action = "update_event" THEN "update" ELSE "delete")
       ELSE WriteCalls = <<>>

C6_Witness ==
  /\ pc = "done" /\ intent.action = "update_event"
  /\ Len(matches.items) = 2 /\ matches.items[1] # matches.items[2]
  /\ Len(WriteCalls) = 1 /\ WriteCalls[1].id = matches.items[1]

\* C7: a create_event intent without summary or without startDateTime
\* returns success = false with an error -- the validation error of the
\* missing field whenever the intent has parameters -- and no calendar
\* capability is called.
C7_CreateValidation ==
  (/\ AfterHandler /\ intent.shape = "object" /\ intent.action = "create_event"
   /\ (~intent.hasParams \/ ~Truthy(intent.p.summary) \/ intent.p.startDateTime.kind = "absent"))
    => /\ result.success = "false"
       /\ result.error # <<>>
       /\ intent.hasParams =>
            result.error = (IF ~Truthy(intent.p.summary) THEN <<"Event title is required">>
                            ELSE <<"Event start time is required">>)
       /\ CalendarCalls = <<>>

C7_Witness ==
  /\ pc = "done" /\ intent.action = "create_event" /\ intent.hasParams
  /\ intent.p.summary = "Meeting" /\ intent.p.startDateTime.kind = "absent"
  /\ intent.p.endDateTime.kind # "absent"
  /\ result.error = <<"Event start time is required">>

\* C8 (as claimed): a create_event intent with summary and a well-formed
\* startDateTime makes exactly one create call; without endDateTime the end
\* passed denotes the instant of startDateTime plus one hour, with
\* endDateTime the end passed is the one given.
C8_DefaultEndOneHour ==
  (/\ AfterHandler /\ intent.shape = "object" /\ intent.action = "create_event"
   /\ intent.hasParams /\ Truthy(intent.p.summary)
   /\ intent.p.startDateTime.kind \in {"local", "utc"})
    => /\ Len(CallsTo({"create"})) = 1
       /\ LET c == CallsTo({"create"})[1]
          IN  /\ c.start = intent.p.startDateTime
              /\ IF intent.p.endDateTime.kind = "absent"
                 THEN HomeInstant(c.end) = AddMs(HomeInstant(c.start), MsPerHour)
                 ELSE c.end = intent.p.endDateTime

\* C9 (as claimed): an update_event whose updates are missing or empty is
\* rejected and makes no update call; every update call carries non-empty
\* updates.
C9_UpdatesRequired ==
  /\ \A i \in 1..Len(calls) : calls[i].fn = "update" => calls[i].updates = "nonempty"
  /\ (/\ AfterHandler /\ intent.shape = "object" /\ intent.action = "update_event"
      /\ intent.hasParams /\ intent.p.updates \in {"absent", "empty"})
       => result.success = "false"

\* C10: for every weekday name d (in any spelling the resolver lower-cases)
\* and every reference date r, getNextDayOfWeek(d, r) falls on weekday d and
\* lies 1 to 7 calendar days after r, at r's time of day.
C10_NextWeekdayInFuture ==
  (dres.name # Absent /\ IndexOf(days, ToLowerCase(dres.name)) >= 0)
    => LET r == IF dres.from = NullDate THEN SydneyNow(dres.now, host) ELSE dres.from
           offset == LocalWall(dres.out, host).day - LocalWall(r, host).day
       IN  /\ GetDay(dres.out, host) = IndexOf(days, ToLowerCase(dres.name))
           /\ offset \in 1..7
           /\ LocalWall(dres.out, host).ms = LocalWall(r, host).ms

C10_Witness ==
  /\ dres.name = "Friday" /\ dres.from # NullDate
  /\ GetDay(dres.from, host) = 5
  /\ dres.out = AddDays(dres.from, host, 7)

\* the weekday a date/time string names, when its only word is a weekday name
IsWeekdayName(w) == IndexOf(days, ToLowerCase(w)) >= 0
BareWeekday(str) == \E d \in DayTokens : IsWeekdayName(d) /\ str.words = {d}
WeekdayOf(str) == IndexOf(days, ToLowerCase(CHOOSE d \in str.words : IsWeekdayName(d)))
\* (D - R) mod 7 with 0 replaced by 7
OffsetMod7(D, R) == IF (D - R) % 7 = 0 THEN 7 ELSE (D - R) % 7
\* calendar days between two instants on the host's wall clock
DaysBetween(a, b) == LocalWall(b, host).day - LocalWall(a, host).day
ParseApplied == pdt.now # NullDate
\* the time of day read off the input, if any, is a time of day (00:00-23:59)
TimeWithinDay ==
  LET tm == TimeToUse(pdt.str, pdt.timeStr).time
  IN  tm = NoTime \/ (Hours24(tm) * 60) + Minutes(tm) < 24 * 60

\* C11: getNextDayOfWeek and the weekday branches of parseDateTime compute
\* the same day offset for every target weekday D and reference weekday R,
\* namely (D - R) mod 7 with 0 replaced by 7; the reference day's own weekday
\* resolves to the date 7 days later.  (parseDateTime is taken on inputs
\* whose time of day, if any, lies within the day.)
C11_ResolversAgree ==
  /\ (dres.name # Absent /\ IsWeekdayName(dres.name)) =>
       LET r == IF dres.from = NullDate THEN SydneyNow(dres.now, host) ELSE dres.from
       IN  DaysBetween(r, dres.out)
             = OffsetMod7(IndexOf(days, ToLowerCase(dres.name)), GetDay(r, host))
  /\ (ParseApplied /\ BareWeekday(pdt.str) /\ TimeWithinDay) =>
       LET name == CHOOSE d \in pdt.str.words : TRUE
           other == GetNextDayOfWeek(name, pdt.now, pdt.now, host)
       IN  /\ DaysBetween(pdt.now, pdt.out)
                = OffsetMod7(WeekdayOf(pdt.str), GetDay(pdt.now, host))
           /\ DaysBetween(pdt.now, pdt.out) = DaysBetween(pdt.now, other)
           /\ GetDay(pdt.out, host) = GetDay(other, host)

C11_Witness ==
  /\ ParseApplied /\ pdt.str.words = {"friday"}
  /\ TimeToUse(pdt.str, pdt.timeStr).time = NoTime
  /\ GetDay(pdt.now, host) = 5
  /\ DaysBetween(pdt.now, pdt.out) = 7

ReadRequests == CallsTo({"getCalendarEvents"})
\* the whole calendar day of an instant, on the host's wall clock
WholeDay(t) == <<SetHours(t, host, 0), SetHours(t, host, EndOfDay)>>

\* C12: handleReadEvents picks the window by the precedence date >
\* specificDay > dateRange ('week' / 'month') > today: the window passed to
\* the list capability is the one of the highest-precedence parameter
\* present, whatever the lower ones are; with none present, or dateRange =
\* 'day' alone, it is today's window.  A date that is present but does not
\* parse makes no request (it never falls through to a lower parameter).
C12_WindowPrecedence ==
  (/\ AfterHandler /\ intent.shape = "object" /\ intent.action = "read_events"
   /\ intent.hasParams)
    => LET p == intent.p
           sn == SydneyNow(clock, host)
           asked == <<ReadRequests[1].tmin, ReadRequests[1].tmax>>
       IN  IF p.date = BadDay THEN ReadRequests = <<>>
           ELSE /\ Len(ReadRequests) = 1
                /\ IF p.date # NoDay
                   THEN asked = WholeDay(FromLocalWall(Instant(p.date, 0), host))
                   ELSE IF Truthy(p.specificDay)
                   THEN asked = WholeDay(GetNextDayOfWeek(p.specificDay, sn, clock, host))
                   ELSE IF p.dateRange = "week" THEN asked = <<sn, AddDays(sn, host, 7)>>
                   ELSE IF p.dateRange = "month" THEN asked = <<sn, AddDays(sn, host, 30)>>
                   ELSE asked = WholeDay(sn)

C12_Witness ==
  /\ pc = "done" /\ intent.action = "read_events" /\ intent.hasParams
  /\ intent.p.date = 3 /\ intent.p.specificDay = "friday" /\ intent.p.dateRange = "week"
  /\ Len(ReadRequests) = 1
  /\ ReadRequests[1].tmin = FromLocalWall(Instant(3, 0), host)
  /\ GetDay(SydneyNow(clock, host), host) # 5

\* C13 (as claimed): when the synthesis call fails, the fallback of
\* generateResponse returns a reply text and does not throw, for every action
\* and every operation result it is handed, a result that is undefined or
\* has no success field included.
C13_FallbackNeverThrows ==
  fb.used => (~fb.thrown /\ fb.reply.kind \in ReplyKinds)

\* C14 (as claimed): when the synthesis call fails and the action is
\* read_events with result.success = true, the fallback reply is 'Found N
\* event(s).' with N = result.count, a read with zero events or with
\* events = null included.
C14_FoundCount ==
  (fb.used /\ intent.action = "read_events" /\ result.success = "true")
    => (~fb.thrown /\ fb.reply = Reply("found", result.count, <<>>))

\* C15: when the synthesis call fails and the operation result has success =
\* false, the fallback reply is result.error when it is present (and not
\* empty) and the generic text otherwise, for every action; it is neither a
\* confirmation nor an event count, and the fallback does not throw.
C15_FailureReply ==
  (fb.used /\ result.shape = "object" /\ result.success = "false")
    => /\ ~fb.thrown
       /\ fb.reply = (IF result.error # <<>> THEN Reply("error", 0, result.error)
                      ELSE Reply("generic", 0, <<>>))
       /\ final = Returned(FALSE, fb.reply)

C15_Witness ==
  /\ pc = "done" /\ fb.used /\ intent.action = "read_events"
  /\ result.success = "false" /\ result.error = CalendarErrorMsg
  /\ fb.reply = Reply("error", 0, CalendarErrorMsg)

ClassifyCalls == CallsTo({"classify.curl", "classify.lib"})

\* C17 (as claimed): one classification issues at most one language-model
\* call.
C17_SingleModelCall == Len(ClassifyCalls) <= 1

\* C17 (amended): one classification issues at most two language-model
\* calls, one per transport: the curl attempt first and, only after it
\* failed, one library attempt; no transport is tried twice, and without an
\* API key no call is made at all.
C17_OneCallPerTransport ==
  /\ Len(ClassifyCalls) <= 2
  /\ Len(ClassifyCalls) >= 1 => ClassifyCalls[1].fn = "classify.curl"
  /\ Len(ClassifyCalls) = 2 => ClassifyCalls[2].fn = "classify.lib"
  /\ pc = "classify_lib" => Len(ClassifyCalls) = 1
  /\ (pc \notin {"start", "classify_lib"} /\ Len(ClassifyCalls) = 1)
       => cause \in {"badshape", "notjson", "parsed"}
  /\ cause = "callfail" => Len(ClassifyCalls) = 2
  /\ ~apiKey => ClassifyCalls = <<>>

C17_Witness ==
  /\ pc = "done" /\ cause = "callfail"
  /\ Len(ClassifyCalls) = 2
  /\ ClassifyCalls[1].fn = "classify.curl" /\ ClassifyCalls[2].fn = "classify.lib"

\* C16 (as claimed): every external call made while handling a message is
\* bounded by a timeout whose expiry counts as a failure of the call, so the
\* handling is never left waiting for ever on a call that gets no answer.
C16_NoCallPendsForever == pc # "hung"

\* C18 (as claimed): once the handler of the webhook is through with an
\* accepted payload, exactly one reply send was attempted for every text
\* message in it, whatever happened to the other messages.
C18_EveryMessageAnswered ==
  hook.phase \in {"finished", "aborted"}
    => \A j \in 1..Len(hook.msgs) :
         hook.msgs[j] # "nontext" => hook.sends[j] = 1

\* the string holds none of the day words parseDateTime knows
NoDayToken(str) ==
  /\ ~Includes(str, "today") /\ ~Includes(str, "tomorrow")
  /\ \A i \in 1..7 : ~Includes(str, days[i])

\* C19 (as claimed): an unrecognized day token leaves the reference date as
\* it is: getNextDayOfWeek with a name that is no weekday returns the
\* reference date it was given, and parseDateTime on a string without a
\* recognized day token (and a time of day, if any, within the day) stays on
\* the reference day.
C19_UnknownTokenKeepsDate ==
  /\ (dres.name # Absent /\ ~IsWeekdayName(dres.name) /\ dres.from # NullDate)
       => dres.out = dres.from
  /\ (ParseApplied /\ NoDayToken(pdt.str) /\ TimeWithinDay)
       => DaysBetween(pdt.now, pdt.out) = 0

\* C20: for a string made of 'next' and a weekday name, parseDateTime
\* returns the date exactly 7 days after the one it returns for the bare
\* weekday name; without a time of day in the input that is 8 to 14 days
\* after the reference day, at 00:00.
C20_NextAddsSevenDays ==
  (ParseApplied /\ \E d \in DayTokens : IsWeekdayName(d) /\ pdt.str.words = {"next", d})
    => LET bare == Str(pdt.str.words \ {"next"}, pdt.str.time)
           onBare == ParseDateTime(bare, pdt.timeStr, pdt.now, host)
       IN  /\ pdt.out = AddDays(onBare, host, 7)
           /\ DaysBetween(onBare, pdt.out) = 7
           /\ TimeToUse(pdt.str, pdt.timeStr).time = NoTime =>
                /\ DaysBetween(pdt.now, pdt.out)
                     = 7 + OffsetMod7(WeekdayOf(bare), GetDay(pdt.now, host))
                /\ DaysBetween(pdt.now, pdt.out) \in 8..14
                /\ LocalWall(pdt.out, host).ms = 0

C20_Witness ==
  /\ ParseApplied /\ pdt.str.words = {"next", "friday"}
  /\ TimeToUse(pdt.str, pdt.timeStr).time = NoTime
  /\ GetDay(pdt.now, host) = 5
  /\ DaysBetween(pdt.now, pdt.out) = 14

\* the time match parseDateTime read, and the date it resolved before the
\* time of day was set
TimeRead == TimeToUse(pdt.str, pdt.timeStr).time
DatePart == ParseDateTime(Str(pdt.str.words, NoTime), NullStr, pdt.now, host)
\* milliseconds from 00:00 of the resolved date to the result
SinceMidnight ==
  (DaysBetween(DatePart, pdt.out) * MsPerDay) + LocalWall(pdt.out, host).ms

\* C21: parseDateTime turns hour h with suffix into 24-hour time: 'pm' and
\* h < 12 gives h + 12, 'am' and h = 12 gives 0, every other case keeps h;
\* the minutes are kept (0 without minutes); the result is that time of day
\* on the resolved date, and its hour is in 0..23 for h in 1..12 with a
\* suffix and for h in 0..23 without.
C21_TwelveHourClock ==
  (ParseApplied /\ TimeRead # NoTime)
    => LET h == TimeRead.h
           suffix == IF TimeRead.mer \in {"pm", "PM"} THEN "pm" ELSE TimeRead.mer
           hour == IF suffix = "pm" /\ h < 12 THEN h + 12
                   ELSE IF suffix = "am" /\ h = 12 THEN 0
                   ELSE h
           minute == IF TimeRead.m = NoMin THEN 0 ELSE TimeRead.m
       IN  /\ SinceMidnight = ((hour * 60) + minute) * 60000
           /\ ((suffix # "" /\ h \in 1..12) \/ (suffix = "" /\ h \in 0..23))
                => /\ hour \in 0..23
                   /\ minute \in 0..59 =>
                        /\ DaysBetween(DatePart, pdt.out) = 0
                        /\ LocalWall(pdt.out, host).ms \div MsPerHour = hour
                        /\ (LocalWall(pdt.out, host).ms % MsPerHour) = minute * 60000

C21_Witness ==
  /\ ParseApplied /\ TimeRead = TimeMatch(12, 30, "am")
  /\ pdt.str.words = {"tomorrow"}
  /\ DaysBetween(pdt.now, pdt.out) = 1
  /\ LocalWall(pdt.out, host).ms = 30 * 60000

DeleteCalls == CallsTo({"delete"})

\* C22: a delete_event whose delete call reports success returns a result
\* whose deletedEvent is the first match of the search, as the search
\* returned it; when the delete call reports failure, reports nothing or
\* throws, or when no delete call is made, the result has no deletedEvent.
C22_DeletedEventEcho ==
  (AfterHandler /\ intent.shape = "object" /\ intent.action = "delete_event")
    => IF result.success = "true"
       THEN /\ Len(DeleteCalls) = 1
            /\ matches.kind = "items" /\ Len(matches.items) >= 1
            /\ result.deletedEvent = matches.items[1]
            /\ result.deletedEvent = DeleteCalls[1].id
            /\ result.deletedEvent # NoEvent
       ELSE result.deletedEvent = NoEvent

C22_Witness ==
  /\ pc = "done" /\ intent.action = "delete_event"
  /\ Len(matches.items) = 2 /\ matches.items[1] # matches.items[2]
  /\ result.success = "true" /\ result.deletedEvent = matches.items[1]

\* C23 (as claimed): the window handleReadEvents requests depends on the
\* reference instant, the parameters and the home zone only: a run on a host
\* in any other zone requests, for the same instant and parameters, the
\* window this run requests.
C23_WindowHostIndependent ==
  (/\ AfterHandler /\ intent.shape = "object" /\ intent.action = "read_events"
   /\ Len(ReadRequests) = 1)
    => \A other \in HostOffsets :
         /\ ReadRequests[1].tmin = ReadWindow(intent.p, clock, other).tmin
         /\ ReadRequests[1].tmax = ReadWindow(intent.p, clock, other).tmax

C25_VerifyTokenRequired ==
  pc = "answered"
    => LET pass == /\ verify.mode = "subscribe"
                   /\ verify.token # Absent /\ verify.configured # Absent
                   /\ verify.token = verify.configured
       IN  /\ verify.status = (IF pass THEN 200 ELSE 403)
           /\ pass => verify.body = SendBody(verify.challenge)

CapabilityFns == {"getCalendarEvents", "search", "create", "update", "delete"}
ClassifyFns == {"classify.curl", "classify.lib"}
SynthFns == {"synth.curl", "synth.lib"}
\* the stage of the pipeline a call belongs to
Phase(fn) == IF fn \in ClassifyFns THEN 1 ELSE IF fn \in SynthFns THEN 3 ELSE 2

\* C26: the external calls of one message are made one after another in the
\* order classification, calendar capability, synthesis: no capability call
\* is made before the classification has produced its intent, a write is
\* made only after the search of the same operation has returned its
\* matches, no synthesis call is made before the handler has handed back its
\* result, and no capability is called twice.
C26_CallsInOrder ==
  /\ \A i, j \in 1..Len(calls) : i < j => Phase(calls[i].fn) <= Phase(calls[j].fn)
  /\ (pc \in {"start", "classify_lib"} \/ intent = NoIntent)
       => \A i \in 1..Len(calls) : calls[i].fn \in ClassifyFns
  /\ \A j \in 1..Len(calls) :
       calls[j].fn \in {"update", "delete"}
         => \E i \in 1..(j - 1) : calls[i].fn = "search" /\ ~calls[i].threw
  /\ pc \in {"update_write", "delete_write"}
       => /\ Len(CallsTo({"search"})) = 1
          /\ calls[Len(calls)].fn = "search"
          /\ matches.kind = "items" /\ Len(matches.items) >= 1
  /\ (pc \in {"synth", "synth_lib"} \/ CallsTo(SynthFns) # <<>>) => built = 1
  /\ built = 0 => CallsTo(SynthFns) = <<>>
  /\ \A f \in CapabilityFns : Len(CallsTo({f})) <= 1
  /\ Len(WriteCalls) <= 1

C26_Witness ==
  /\ pc = "done"
  /\ Len(calls) = 6
  /\ calls[1].fn = "classify.curl" /\ calls[2].fn = "classify.lib"
  /\ calls[3].fn = "search" /\ calls[4].fn = "update"
  /\ calls[5].fn = "synth.curl" /\ calls[6].fn = "synth.lib"

\* positions in the log of the capability calls that ended in an exception
ThrownCapabilityCalls ==
  {i \in 1..Len(calls) : calls[i].fn \in CapabilityFns /\ calls[i].threw}

\* C27: when a calendar capability call (list, search, create, update or
\* delete) throws, a timeout it raises included, the handler that made it
\* hands back success = false with the exception's message as the error, no
\* capability is called after it for that intent, generateResponse is called
\* exactly once, for that result, and the message gets a reply.
C27_CapabilityFailureContained ==
  (AfterHandler /\ ThrownCapabilityCalls # {})
    => /\ result.shape = "object"
       /\ result.success = "false"
       /\ result.error = CalendarErrorMsg
       /\ built = 1
       /\ \A i \in ThrownCapabilityCalls :
            \A j \in (i + 1)..Len(calls) : calls[j].fn \notin CapabilityFns
       /\ Len(genCalls) <= 1
       /\ pc # "synth" => /\ Len(genCalls) = 1
                          /\ genCalls[1].result = result
                          /\ genCalls[1].action = intent.action
       /\ pc = "done" => /\ returns = 1
                         /\ ~final.thrown /\ ~final.success
                         /\ final.response # NoReply

C27_Witness ==
  /\ pc = "done" /\ intent.action = "read_events"
  /\ \E i \in 1..Len(calls) : calls[i].fn = "list" /\ calls[i].threw
  /\ fb.used /\ final = Returned(FALSE, Reply("error", 0, CalendarErrorMsg))

\* the intent is an update or a delete that names no event to look for
NoSearchQuery ==
  /\ intent.shape = "object" /\ intent.action \in {"update_event", "delete_event"}
  /\ (~intent.hasParams \/ ~Truthy(intent.p.searchQuery))

\* C28: an update_event or delete_event intent without a searchQuery (absent
\* or empty, or with no parameters at all) returns success = false, with the
\* request to name the event when the parameters are there, and makes
\* neither a search call nor a write call, at any time.
C28_NoQueryNoCalls ==
  NoSearchQuery
    => /\ CallsTo({"search"}) = <<>> /\ WriteCalls = <<>> /\ CalendarCalls = <<>>
       /\ matches = NoSearch
       /\ pc \notin {"update_write", "delete_write"}
       /\ AfterHandler
            => /\ result.shape = "object" /\ result.success = "false"
               /\ intent.hasParams
                    => result.error =
                         <<"Please specify which event to ",
                           IF intent.action = "update_event" THEN "update" ELSE "delete">>
               /\ pc = "done" => ~final.thrown /\ ~final.success

C28_Witness ==
  /\ pc = "done" /\ intent.action = "delete_event"
  /\ intent.hasParams /\ intent.p.searchQuery = ""
  /\ result = Failure(<<"Please specify which event to ", "delete">>)
  /\ Len(genCalls) = 1 /\ CalendarCalls = <<>>

\* C29: when the classification hands back action 'unknown',
\* processCalendarMessage returns success = false with the fixed help text,
\* once, and neither a calendar capability nor a synthesis call of the
\* language model is made for that message; no handler runs.
C29_UnknownShortCircuit ==
  (intent.shape = "object" /\ intent.action = "unknown")
    => /\ pc \in {"dispatch", "done"}
       /\ CalendarCalls = <<>>
       /\ CallsTo(SynthFns) = <<>>
       /\ genCalls = <<>>
       /\ built = 0
       /\ \A i \in 1..Len(calls) : calls[i].fn \in ClassifyFns
       /\ pc = "done" => final = Returned(FALSE, HelpReply) /\ returns = 1

C29_Witness ==
  /\ pc = "done" /\ intent.shape = "object" /\ intent.action = "unknown"
  /\ cause = "parsed"
  /\ final = Returned(FALSE, HelpReply)
  /\ Len(calls) = 1 /\ calls[1].fn = "classify.curl"

\* a is an earlier instant than b
Earlier(a, b) == a.day < b.day \/ (a.day = b.day /\ a.ms < b.ms)
\* the instant with its milliseconds dropped
WholeSecond(t) == Instant(t.day, t.ms - (t.ms % 1000))

\* C30 (as claimed): every window handleReadEvents requests is well-formed.
\* In the date, specificDay and default branches timeMin is 00:00:00.000 and
\* timeMax is 23:59:59.999 of one calendar day (read on the wall clock the
\* process computes with), the day of the date parameter or, by default,
\* today in the home zone; for dateRange 'week' and 'month' timeMin is the
\* reference instant (to the second) and timeMax is 7 and 30 days after it;
\* in every branch timeMin < timeMax.
C30_WindowWellFormed ==
  (/\ AfterHandler /\ intent.shape = "object" /\ intent.action = "read_events"
   /\ Len(ReadRequests) = 1)
    => LET p == intent.p
           tmin == ReadRequests[1].tmin
           tmax == ReadRequests[1].tmax
           wmin == LocalWall(tmin, host)
           wmax == LocalWall(tmax, host)
           ahead == IF p.dateRange = "week" THEN 7 ELSE 30
       IN  /\ Earlier(tmin, tmax)
           /\ IF p.date # NoDay \/ Truthy(p.specificDay) \/ p.dateRange \notin {"week", "month"}
              THEN /\ wmin.ms = 0 /\ wmax.ms = EndOfDay /\ wmin.day = wmax.day
                   /\ p.date # NoDay => wmin.day = p.date
                   /\ (p.date = NoDay /\ ~Truthy(p.specificDay))
                        => wmin.day = LocalWall(clock, HomeOffset).day
              ELSE /\ tmin = WholeSecond(clock)
                   /\ tmax = Instant(tmin.day + ahead, tmin.ms)

\* positions in the log of the requests of one kind made for a phone number
RequestsOf(kind, p) ==
  {i \in 1..Len(gce.reqs) : gce.reqs[i].kind = kind /\ gce.reqs[i].phone = p}

\* C31: in getCalendarEvents, stored tokens whose expiry_date is not after
\* the current time are refreshed, and the refreshed credentials are stored
\* for that phone number, before the list request is issued; tokens that are
\* not expired cause no refresh request and no credential write; no list
\* request is ever issued with credentials known to be expired.
C31_RefreshBeforeList ==
  pc = "shared"
    => \A p \in Phones :
         /\ \A i \in RequestsOf("list", p) :
              /\ ~gce.reqs[i].creds.expired
              /\ gce.reqs[i].creds = gce.store[p]
              /\ gce.reqs[i].creds.gen = 1
                   => \E j \in RequestsOf("refresh", p) :
                        j < i /\ gce.reqs[j].creds = Creds(p, 0, TRUE)
         /\ \A j \in RequestsOf("refresh", p) : gce.reqs[j].creds.expired
         /\ (gce.store[p] # NoCreds /\ gce.store[p].gen > 0) => RequestsOf("refresh", p) # {}
         /\ (gce.store[p] # NoCreds /\ gce.store[p].expired)
              => gce.at[p] \notin {"listing", "done"}
         /\ (gce.store[p] # NoCreds /\ gce.at[p] \in {"listing", "done"})
              => RequestsOf("list", p) # {}
         /\ RequestsOf("refresh", p) = {}
              => (gce.store[p] = NoCreds \/ gce.store[p] = Creds(p, 0, FALSE)
                  \/ gce.at[p] = "lookup")

C31_Witness ==
  /\ pc = "shared"
  /\ gce.at[1] = "done" /\ gce.at[2] = "done"
  /\ gce.reqs = <<Request("list", 2, Creds(2, 0, FALSE)),
                  Request("refresh", 1, Creds(1, 0, TRUE)),
                  Request("list", 1, Creds(1, 1, FALSE))>>
  /\ gce.store[1] = Creds(1, 1, FALSE) /\ gce.store[2] = Creds(2, 0, FALSE)

SynthCalls == CallsTo(SynthFns)
\* the transports of one language-model call were tried in the fixed order
CurlThenLibrary(cs, curl, lib) ==
  /\ Len(cs) <= 2
  /\ Len(cs) >= 1 => cs[1].fn = curl
  /\ Len(cs) = 2 => (cs[2].fn = lib /\ cs[1].threw)

\* C32: for the classification and for the synthesis the transports are
\* tried in a fixed order, curl first and the OpenAI library only after the
\* curl attempt failed; after a curl attempt that succeeded the library is
\* never called; the response of the first attempt that succeeded is the
\* one used; when both attempts failed the outcome is the component's own
\* fallback, the unknown intent or the template reply.
C32_CurlThenLibraryFallback ==
  /\ CurlThenLibrary(ClassifyCalls, "classify.curl", "classify.lib")
  /\ CurlThenLibrary(SynthCalls, "synth.curl", "synth.lib")
  /\ pc = "classify_lib" <=> (Len(ClassifyCalls) = 1 /\ ClassifyCalls[1].threw)
  /\ pc = "synth_lib" <=> (Len(SynthCalls) = 1 /\ SynthCalls[1].threw)
  /\ (pc \notin {"start", "classify_lib"} /\ ClassifyCalls # <<>>)
       => LET last == ClassifyCalls[Len(ClassifyCalls)]
          IN  IF last.threw
              THEN /\ Len(ClassifyCalls) = 2
                   /\ cause = "callfail" /\ intent = ClassifyCatch
              ELSE /\ cause \in {"badshape", "notjson", "parsed"}
                   /\ intent = (IF cause = "parsed" THEN output.val ELSE ClassifyCatch)
  /\ (pc = "done" /\ SynthCalls # <<>>)
       => LET last == SynthCalls[Len(SynthCalls)]
          IN  IF last.threw
              THEN /\ Len(SynthCalls) = 2
                   /\ fb.used
                   /\ final = FinishReply(intent.action, result, "fail")
              ELSE ~fb.used => final = ReturnReply(result, ModelReply)

C32_Witness ==
  /\ pc = "done"
  /\ Len(ClassifyCalls) = 2 /\ ClassifyCalls[1].threw /\ ~ClassifyCalls[2].threw
  /\ cause = "parsed" /\ intent.action = "create_event"
  /\ Len(SynthCalls) = 2 /\ SynthCalls[1].threw /\ SynthCalls[2].threw
  /\ fb.used /\ ~fb.thrown /\ final.response = fb.reply

\* callbacks that saved tokens
Savers == {oauth.saves[i].cb : i \in 1..Len(oauth.saves)}
\* the callback went on to the token exchange
PassedCheck(cb) ==
  cb.at \in {"exchange", "save", "clear"} \/ (cb.at = "answered" /\ cb.looked /\ cb.status # 400)
\* the callback carried a code, and either no state or a state that was not
\* the pending state of its phone number when the row was read
BadState(cb) ==
  /\ cb.at = "answered" /\ cb.code
  /\ \/ cb.shape = "absent"
     \/ cb.looked /\ (cb.shape # "full" \/ cb.seen = NoState \/ cb.seen # cb.tok)

\* C33 (as claimed): the OAuth callback saves tokens for a phone number only
\* if the state token of the request equals the pending state read for that
\* phone number; a callback with a missing, stale or wrong state is answered
\* 400, starts no token exchange and writes nothing.
C33_StateChecked ==
  pc = "oauth"
    => /\ \A c \in Callbacks :
            LET cb == oauth.cbs[c]
            IN  /\ (PassedCheck(cb) \/ c \in Savers)
                     => (cb.shape = "full" /\ cb.seen # NoState /\ cb.seen = cb.tok)
                /\ BadState(cb) => (cb.status = 400 /\ c \notin Savers)
       /\ \A i \in 1..Len(oauth.saves) :
            LET e == oauth.saves[i]
            IN  e.phone = oauth.cbs[e.cb].phone /\ e.s = oauth.cbs[e.cb].seen
       /\ oauth.exchanges = Cardinality({c \in Callbacks : PassedCheck(oauth.cbs[c])})

\* no link request was made for the phone number of s after the one of s
Latest(s) ==
  \A t \in Generated : t > s => oauth.links[t].phone # oauth.links[s].phone
\* a callback carrying s went through and cleared the pending state
Consumed(s) ==
  \E c \in Callbacks :
    LET cb == oauth.cbs[c]
    IN  cb.tok = s /\ cb.phone = oauth.links[s].phone /\ PassedCheck(cb) /\ cb.at = "answered"
        /\ cb.status = 200

\* C34 (as claimed): once the OAuth URL carrying state s for phone number P
\* has been handed out, by the link-calendar reply or by the /auth/google
\* redirect, s is stored as P's pending state, and stays so until a newer
\* link request for P or a callback that used s; a callback presenting s in
\* between therefore passes the state check.
C34_HandedOutStateStored ==
  pc = "oauth"
    => \A s \in Generated :
         (oauth.links[s].handed /\ Latest(s) /\ ~Consumed(s))
           => oauth.db[oauth.links[s].phone].pending = s

\* tokens saved on the strength of state token s
SavesOn(s) == {i \in 1..Len(oauth.saves) : oauth.saves[i].s = s}

\* C35 (as claimed): a pending OAuth state is single-use: under every
\* interleaving of callback requests tokens are saved at most once on the
\* strength of a state token s, and a callback carrying s that has gone
\* through leaves no pending state s behind.
C35_StateSingleUse ==
  pc = "oauth"
    => \A s \in StateIds :
         /\ Cardinality(SavesOn(s)) <= 1
         /\ Consumed(s) => oauth.db[oauth.links[s].phone].pending # s

\* C36 (as claimed): in the cached file store no completed write is lost:
\* once saveUser(P, d) has returned, the cache entry of P is d, and so is
\* the entry of P in what every saveUser that merged afterwards writes to
\* the file, under every interleaving with the runs of initStorage and with
\* the saves for other phone numbers.
C36_NoLostWrite ==
  pc = "store"
    => /\ \A p \in Returned_Saves :
            storage.usersCache.on /\ storage.usersCache.users[p] = SavedUser
       /\ \A q \in Phones :
            \A p \in storage.saves[q].after :
              storage.saves[q].content.users[p] = SavedUser

\* the fields of the record that the last operation was not given are as
\* they were before it
FieldsKept(old, new, d) ==
  /\ d.tokens = NoTok => new.tokens = old.tokens
  /\ d.linked = "absent" => new.linked = old.linked
  /\ d.linkedAt = 0 => new.linkedAt = old.linkedAt
  /\ d.pending = NoState => new.pending = old.pending

Confirmations == {"found", "created", "updated", "deleted"}

\* C38 (as claimed): the fallback reply and the success flag returned by
\* processCalendarMessage agree: when it reports success the fallback text
\* is a confirmation or an event count, and when it reports failure the
\* fallback text is the error or the generic failure text.
C38_FallbackAgreesWithSuccess ==
  (pc = "done" /\ fb.used /\ ~fb.thrown /\ ~final.thrown)
    => (final.success <=> fb.reply.kind \in Confirmations)

\* C39 (as claimed): the /api/users response holds no token material, and
\* the calendarLinked it reports for a user is true exactly when the user
\* has stored calendar tokens, after any sequence of link, save and clear
\* operations.
C39_UsersReport ==
  (pc = "users" /\ oauth.phase = "reported")
    => /\ \A u \in oauth.api :
            /\ "googleCalendarTokens" \notin DOMAIN u
            /\ u.calendarLinked = (oauth.db[u.phoneNumber].tokens # NoTok)
       /\ {u.phoneNumber : u \in oauth.api} = {p \in Phones : oauth.db[p].exists}

====
